---- MODULE Spec2Model ----
(***************************************************************************)
(* A model of jpi.py, the pilang interpreter: the line tokeniser, the      *)
(* stack-driven parser that grows the node arena, and the executor that    *)
(* walks the post-order work list with its jump pointer.                   *)
(*                                                                         *)
(* Conventions.  Node indices are the program's own (0-based); the arena   *)
(* is a sequence, so node i is nodes[i + 1].  A name is the sequence of    *)
(* its characters.  A scope signature is the sequence of scope-stack       *)
(* indices that the program joins with dots.  A runtime value is a tagged  *)
(* record: IntV, BoolV, ListV or NoneV.  An unhandled Python exception     *)
(* (KeyError, IndexError, TypeError) is the control state "crashed";       *)
(* terminate() is the control state "terminated".                          *)
(***************************************************************************)
EXTENDS Integers, Sequences, FiniteSets, TLC

VARIABLES
    pc,            \* "feed", "parse", "eol", "exec", "done", "terminated", "crashed"
    src,           \* lines of standard input not yet fed
    lines,         \* Interpreter.lines
    toks,          \* tokens of the line being parsed
    index,         \* parse(): index of the token last read
    expect,        \* parse(): the expectation state
    nodes,         \* Program.nodes
    cons_stack,    \* Program.cons_stack
    active_stack,  \* Program.active_stack
    scope_stack,   \* Program.scope_stack
    cur_lptr,      \* Program.cur_lptr
    to_exec,       \* execute(): the work list (node indices)
    jump_node,     \* execute(): the jump pointer, or None
    node_values,   \* execute(): node index -> value
    var_values,    \* execute(): name -> value
    scope_map,     \* execute(): scope signature -> list of local names
    output,        \* values printed by assignments to !
    diag,          \* diagnostics printed by _err and _warn
    hist           \* history variable: what each cycle has been observed to do

vars == <<pc, src, lines, toks, index, expect, nodes, cons_stack, active_stack,
          scope_stack, cur_lptr, to_exec, jump_node, node_values, var_values,
          scope_map, output, diag, hist>>

parseVars == <<toks, index, expect>>
progVars  == <<nodes, cons_stack, active_stack, scope_stack, cur_lptr>>
execVars  == <<to_exec, jump_node, node_values, var_values, scope_map, output, hist>>

-----------------------------------------------------------------------------
(* Bounds of the model *)

\* Largest integer literal of the generated programs.
MaxVal == 2
\* Longest sequence a cycle may accumulate before the model stops following it.
MaxCycleLen == 4

-----------------------------------------------------------------------------
(* Values *)

None == "None"

IntV(n)  == [t |-> "int",  v |-> n]
BoolV(b) == [t |-> "bool", v |-> b]
ListV(s) == [t |-> "list", v |-> s]
NoneV    == [t |-> "none"]

IsInt(x)  == x.t = "int"
IsList(x) == x.t = "list"

\* Python truthiness of a value (if x:).
Truthy(x) ==
    CASE x.t = "bool" -> x.v
      [] x.t = "int"  -> x.v # 0
      [] x.t = "list" -> x.v # <<>>
      [] OTHER        -> FALSE

-----------------------------------------------------------------------------
(* Diagnostics: _err and _warn print the 1-based line and a message. *)

Err(lptr, msg, arg)  == [k |-> "Error",   line |-> lptr + 1, msg |-> msg, arg |-> arg]
Warn(lptr, msg, arg) == [k |-> "Warning", line |-> lptr + 1, msg |-> msg, arg |-> arg]

-----------------------------------------------------------------------------
(* Lexer *)

Letters == {"a","b","c","d","e","f","g","h","i","j","k","l","m",
            "n","o","p","q","r","s","t","u","v","w","x","y","z"}
DigitChars == <<"0","1","2","3","4","5","6","7","8","9">>
Digits == {DigitChars[k] : k \in 1..10}
Spaces == {" ", "\n", "\t"}

isalnum(c)   == c \in Letters \cup Digits
isalpha(c)   == c \in Letters
isdecimal(c) == c \in Digits
isspace(c)   == c \in Spaces

DigitVal(c) == (CHOOSE k \in 1..10 : DigitChars[k] = c) - 1

\* int(builder) for a string of decimal digits.
RECURSIVE ToInt(_)
ToInt(b) == IF b = <<>> THEN 0
            ELSE 10 * ToInt(SubSeq(b, 1, Len(b) - 1)) + DigitVal(b[Len(b)])

tokmap == [c \in {"[", "]", "(", ")", "@", "+", "-", ":", "?", ";"} |->
             CASE c = "[" -> "LBRACK" [] c = "]" -> "RBRACK"
               [] c = "(" -> "LPAREN" [] c = ")" -> "RPAREN"
               [] c = "@" -> "AT"     [] c = "+" -> "PLUS"
               [] c = "-" -> "MINUS"  [] c = ":" -> "COLON"
               [] c = "?" -> "QUOI"   [] c = ";" -> "SEMI"]

Token(tt, val, lptr) == [tt |-> tt, val |-> val, lptr |-> lptr]

\* The `if mode == search:` block for one character.
LexSearch(st, c, lptr) ==
    IF isspace(c) THEN st
    ELSE IF c \in DOMAIN tokmap
        THEN [st EXCEPT !.toks = Append(@, Token(tokmap[c], None, lptr))]
    ELSE IF isalpha(c) \/ c = "_"
        THEN [st EXCEPT !.mode = "gname", !.builder = Append(@, c)]
    ELSE IF c = "'" THEN [st EXCEPT !.mode = "lname"]
    ELSE IF isdecimal(c)
        THEN [st EXCEPT !.mode = "number", !.builder = Append(@, c)]
    ELSE IF c = "!"
        THEN [st EXCEPT !.toks = Append(@, Token("GNAME", <<"!">>, lptr))]
    ELSE [st EXCEPT !.errs = Append(@, Err(lptr, "Bad character in program", <<c>>))]

\* One iteration of `for c in line`.
LexChar(st, c, lptr) ==
    CASE st.mode = "gname" ->
            IF isalnum(c) \/ c = "_" THEN [st EXCEPT !.builder = Append(@, c)]
            ELSE LexSearch([st EXCEPT !.toks = Append(@, Token("GNAME", st.builder, lptr)),
                                      !.builder = <<>>, !.mode = "search"], c, lptr)
      [] st.mode = "lname" ->
            IF isalnum(c) \/ c = "_" THEN [st EXCEPT !.builder = Append(@, c)]
            ELSE LET f == [st EXCEPT !.toks = Append(@, Token("LNAME", st.builder, lptr)),
                                     !.builder = <<>>, !.mode = "search"]
                 IN IF c # "'"
                    THEN LexSearch([f EXCEPT !.errs = Append(@,
                              Err(lptr, "Bad character in local identifier", <<c>>))], c, lptr)
                    ELSE f
      [] st.mode = "number" ->
            IF isdecimal(c) THEN [st EXCEPT !.builder = Append(@, c)]
            ELSE LexSearch([st EXCEPT !.toks = Append(@, Token("NUMBER", ToInt(st.builder), lptr)),
                                      !.builder = <<>>, !.mode = "search"], c, lptr)
      [] OTHER -> LexSearch(st, c, lptr)

RECURSIVE LexFrom(_, _, _, _)
LexFrom(st, line, k, lptr) ==
    IF k > Len(line) THEN st
    ELSE LexFrom(LexChar(st, line[k], lptr), line, k + 1, lptr)

\* tokenise(lptr): the tokens of a line and the diagnostics printed on the way.
\* The loop ends with the line: a token still in the builder is not emitted.
tokenise(line, lptr) ==
    LexFrom([mode |-> "search", builder |-> <<>>, toks |-> <<>>, errs |-> <<>>],
            line, 1, lptr)

-----------------------------------------------------------------------------
(* Program: the node arena and the three parser stacks.  The operators     *)
(* below thread a record ps holding the parser's and the Program's         *)
(* fields: nodes, cons, act, scp (the stacks), lptr, expect, index, diag   *)
(* and ctl, the way the loop iteration ends ("fall" while it is running).  *)

Top(s) == s[Len(s)]
Pop(s) == SubSeq(s, 1, Len(s) - 1)

Node(lptr, i, parent, nt, scope_sig, val) ==
    [lptr |-> lptr, i |-> i, parent |-> parent, nt |-> nt, val |-> val,
     scope_sig |-> scope_sig, children |-> <<>>]

\* An IndexError raised by an empty stack.
Raise(ps) == [ps EXCEPT !.ctl = "crash"]
Ok(ps) == ps.ctl # "crash"

construct(ps) == ps.nodes[Top(ps.cons) + 1]
active(ps)    == ps.nodes[Top(ps.act) + 1]

add_leaf(ps, nt, val) ==
    IF ~Ok(ps) THEN ps
    ELSE IF ps.act = <<>> THEN Raise(ps)
    ELSE LET i == Len(ps.nodes)
             n == Node(ps.lptr, i, Top(ps.act), nt, ps.scp, val)
         IN [ps EXCEPT !.nodes =
                Append([@ EXCEPT ![Top(ps.act) + 1].children = Append(@, i)], n)]

\* A variant of add_active that gives the node the signature of before
\* the push: C21 tells it from add_active.
add_active_sig_before(ps, nt, val, cons) ==
    IF ~Ok(ps) THEN ps
    ELSE IF ps.act = <<>> THEN Raise(ps)
    ELSE LET i   == Len(ps.nodes)
             scp == IF nt = "SCOPE" THEN Append(ps.scp, i) ELSE ps.scp
             n   == Node(ps.lptr, i, Top(ps.act), nt, ps.scp, val)
         IN [ps EXCEPT !.scp = scp,
                       !.nodes = Append([@ EXCEPT ![Top(ps.act) + 1].children = Append(@, i)], n),
                       !.act = Append(@, i),
                       !.cons = IF cons THEN Append(@, i) ELSE @]

add_active(ps, nt, val, cons) ==
    IF ~Ok(ps) THEN ps
    ELSE IF ps.act = <<>> THEN Raise(ps)
    ELSE LET i   == Len(ps.nodes)
             scp == IF nt = "SCOPE" THEN Append(ps.scp, i) ELSE ps.scp
             n   == Node(ps.lptr, i, Top(ps.act), nt, scp, val)
         IN [ps EXCEPT !.scp = scp,
                       !.nodes = Append([@ EXCEPT ![Top(ps.act) + 1].children = Append(@, i)], n),
                       !.act = Append(@, i),
                       !.cons = IF cons THEN Append(@, i) ELSE @]

\* A variant of conclude_active that leaves the scope stack alone: C24
\* tells it from conclude_active.
conclude_active_keep_scope(ps) ==
    IF ~Ok(ps) THEN ps
    ELSE IF ps.act = <<>> \/ ps.scp = <<>> THEN Raise(ps)
    ELSE LET val == Top(ps.act)
             p1  == [ps EXCEPT !.act = Pop(@)]
         IN IF p1.cons = <<>> THEN Raise(p1)
            ELSE [p1 EXCEPT !.cons = IF val = Top(@) THEN Pop(@) ELSE @]

conclude_active(ps) ==
    IF ~Ok(ps) THEN ps
    ELSE IF ps.act = <<>> \/ ps.scp = <<>> THEN Raise(ps)
    ELSE LET val == Top(ps.act)
             p1  == [ps EXCEPT !.act = Pop(@),
                               !.scp = IF val = Top(@) THEN Pop(@) ELSE @]
         IN IF p1.cons = <<>> THEN Raise(p1)
            ELSE [p1 EXCEPT !.cons = IF val = Top(@) THEN Pop(@) ELSE @]

\* The conditions handed to rebase_when.
checkf(kind, ps) ==
    CASE kind = "construct" -> active(ps).i = Top(ps.cons)
      [] kind = "sequence"  -> active(ps).nt = "SEQ"
      [] kind = "arm"       -> active(ps).nt \in {"IF", "ELSE"}

RECURSIVE rebase_when(_, _)
rebase_when(ps, kind) ==
    IF ~Ok(ps) THEN ps
    ELSE IF ps.act = <<>> \/ (kind = "construct" /\ ps.cons = <<>>) THEN Raise(ps)
    ELSE IF checkf(kind, ps) THEN ps
    ELSE rebase_when(conclude_active(ps), kind)

conclude_when(ps, kind) == conclude_active(rebase_when(ps, kind))
conclude_construct(ps)  == conclude_when(ps, "construct")
rebase_construct(ps)    == rebase_when(ps, "construct")
rebase_sequence(ps)     == rebase_when(ps, "sequence")

-----------------------------------------------------------------------------
(* Parser.  Each block of the token loop of parse() is written as the list *)
(* of the steps it takes for a token; ParserStep carries one step out, and *)
(* Run carries a list out until one of its steps ends the iteration.       *)

I0(op)          == [op |-> op, a |-> None, b |-> None, c |-> FALSE]
I1(op, a)       == [op |-> op, a |-> a, b |-> None, c |-> FALSE]
I2(op, a, b)    == [op |-> op, a |-> a, b |-> b, c |-> FALSE]
AddActive(nt)          == [op |-> "add_active", a |-> nt, b |-> None, c |-> FALSE]
AddActiveVal(nt, val)  == [op |-> "add_active", a |-> nt, b |-> val, c |-> FALSE]
AddConstruct(nt)       == [op |-> "add_active", a |-> nt, b |-> None, c |-> TRUE]
AddLeaf(nt, val)       == I2("add_leaf", nt, val)
ExpectNow(e)           == I1("expect", e)
ErrMsg(msg)            == I1("err", msg)
WarnMsg(msg)           == I1("warn", msg)
\* _err followed by terminate().
Fatal(msg)             == I1("fatal", msg)
Continue               == I0("continue")
Break                  == I0("break")

\* A variant of IfPredicate whose not-taken target is the PREDICATE node
\* itself, which is behind in the work list when it is evaluated: C17 tells
\* it from IfPredicate.
IfPredicateSelf(ps) ==
    [test |-> "gt0", jumps |-> <<construct(ps).i, Len(ps.nodes)>>]

\* A variant of CyclePredicate with the test of an IF: C2 tells them apart.
CyclePredicateGt(ps) == [test |-> "gt0", jumps |-> <<construct(ps).i>>]

\* The payloads of the two kinds of PREDICATE: the test, then the jump targets.
CyclePredicate(ps) == [test |-> "le0", jumps |-> <<construct(ps).i>>]
IfPredicate(ps)    == [test |-> "gt0", jumps |-> <<construct(ps).i, active(ps).i>>]

PErr(ps, msg)  == [ps EXCEPT !.diag = Append(@, Err(ps.lptr, msg, <<>>))]
PWarn(ps, msg) == [ps EXCEPT !.diag = Append(@, Warn(ps.lptr, msg, <<>>))]
Terminated(ps, msg) == [PErr(ps, msg) EXCEPT !.ctl = "terminate"]

\* while prog.construct().nt == NodeType.CONDEX: prog.conclude_construct()
RECURSIVE CloseCondexes(_)
CloseCondexes(ps) ==
    IF ~Ok(ps) THEN ps
    ELSE IF ps.cons = <<>> THEN Raise(ps)
    ELSE IF construct(ps).nt = "CONDEX" THEN CloseCondexes(conclude_construct(ps))
    ELSE ps

ParserStep(ps, i) ==
    CASE i.op = "add_active" -> add_active(ps, i.a, i.b, i.c)
      [] i.op = "add_leaf"   -> add_leaf(ps, i.a, i.b)
      [] i.op = "if_predicate" ->
            IF ps.cons = <<>> \/ ps.act = <<>> THEN Raise(ps)
            ELSE add_active(ps, "PREDICATE", IfPredicate(ps), FALSE)
      [] i.op = "cycle_predicate" ->
            IF ps.cons = <<>> THEN Raise(ps)
            ELSE add_active(ps, "PREDICATE", CyclePredicate(ps), FALSE)
      [] i.op = "expect"   -> [ps EXCEPT !.expect = i.a]
      [] i.op = "unread"   -> [ps EXCEPT !.index = @ - 1]
      [] i.op = "err"      -> PErr(ps, i.a)
      [] i.op = "warn"     -> PWarn(ps, i.a)
      [] i.op = "fatal"    -> Terminated(ps, i.a)
      [] i.op = "continue" -> [ps EXCEPT !.ctl = "continue"]
      [] i.op = "break"    -> [ps EXCEPT !.ctl = "break"]
      [] i.op = "raise"    -> Raise(ps)
      [] i.op = "close_condexes"     -> CloseCondexes(ps)
      [] i.op = "conclude_construct" -> conclude_construct(ps)
      [] i.op = "rebase_construct"   -> rebase_construct(ps)
      [] i.op = "rebase_arm"         -> rebase_when(ps, "arm")
      \* `if prog.construct().nt not in {...}: _err; terminate()`
      [] i.op = "closes" ->
            IF ps.cons = <<>> THEN Raise(ps)
            ELSE IF construct(ps).nt \notin i.a THEN Terminated(ps, i.b) ELSE ps
      \* `if prog.active().nt == NodeType.ELSE: _err; terminate()`
      [] i.op = "no_else" ->
            IF ps.act = <<>> THEN Raise(ps)
            ELSE IF active(ps).nt = "ELSE" THEN Terminated(ps, i.a) ELSE ps

RECURSIVE Run(_, _, _)
Run(ps, is, k) ==
    IF k > Len(is) \/ ps.ctl # "fall" THEN ps
    ELSE Run(ParserStep(ps, is[k]), is, k + 1)

OpenIf    == <<AddActive("IF"), I0("if_predicate"), AddActive("EXPR")>>
OpenCycle == <<AddConstruct("CYCLE"), I0("cycle_predicate"), AddActive("EXPR")>>

\* expect == initial
BlkInitial(ps, tok) ==
    IF tok.tt \in {"GNAME", "LNAME"}
    THEN <<AddActive("ASSIGN"), AddLeaf("LVALUE", tok), ExpectNow("assign"), Continue>>
    ELSE IF tok.tt \in {"RPAREN", "RBRACK"} THEN <<ExpectNow("expr_op")>>
    ELSE <<Fatal("Malformed line")>>

\* expect == assign
BlkAssign(ps, tok) ==
    IF tok.tt = "COLON"
    THEN <<AddActive("EXPR"), ExpectNow("expr_val"), Continue>>
    ELSE <<Fatal("Expected assignment")>>

\* expect == expr_val
BlkExprVal(ps, tok) ==
    CASE tok.tt = "QUOI" -> <<AddConstruct("CONDEX")>> \o OpenIf \o <<Continue>>
      [] tok.tt \in {"GNAME", "LNAME", "NUMBER"} ->
            IF tok.tt # "NUMBER" /\ tok.val = <<"!">>
            THEN <<ErrMsg("Cannot use output variable '!' as value."), Break>>
            ELSE <<AddLeaf("VALUE", tok), ExpectNow("expr_op"), Continue>>
      [] tok.tt = "LPAREN" -> <<ExpectNow("paren_contents"), Continue>>
      [] tok.tt = "LBRACK" -> OpenCycle \o <<Continue>>
      [] OTHER -> <<>>

\* A variant of Closer that closes whatever construct is on top: C16 tells
\* it from Closer.
CloserAny(closes, msg) ==
    <<I0("close_condexes"), I0("conclude_construct"), Continue>>

\* RPAREN and RBRACK in expr_op: closes is the set of kinds the closer may close.
Closer(closes, msg) ==
    <<I0("close_condexes"), I2("closes", closes, msg), I0("conclude_construct"), Continue>>

\* A variant of Colon whose last branch terminates: C9 tells it from Colon.
ColonFatal(ps) ==
    IF ps.cons = <<>> THEN <<I0("raise")>>
    ELSE IF construct(ps).nt = "CONDEX"
    THEN <<I0("rebase_arm"), I1("no_else", "Cannot have predicate in else statement"),
           AddActive("EXPR"), ExpectNow("expr_val"), Continue>>
    ELSE IF construct(ps).nt = "CYCLE"
    THEN <<I0("rebase_construct"), AddActive("EXPR"), ExpectNow("expr_val"), Continue>>
    ELSE <<Fatal("Colon found outside of cycle or conditional expression")>>

\* `if tok.tt == TokenType.COLON or implied_colon:`
Colon(ps) ==
    IF ps.cons = <<>> THEN <<I0("raise")>>
    ELSE IF construct(ps).nt = "CONDEX"
    THEN <<I0("rebase_arm"), I1("no_else", "Cannot have predicate in else statement"),
           AddActive("EXPR"), ExpectNow("expr_val"), Continue>>
    ELSE IF construct(ps).nt = "CYCLE"
    THEN <<I0("rebase_construct"), AddActive("EXPR"), ExpectNow("expr_val"), Continue>>
    ELSE <<ErrMsg("Colon found outside of cycle or conditional expression"), Break>>

\* expect == expr_op
BlkExprOp(ps, tok) ==
    CASE tok.tt \in {"PLUS", "MINUS"} ->
            <<AddLeaf("OP", tok), ExpectNow("expr_val"), Continue>>
      [] tok.tt \in {"LPAREN", "LBRACK"} ->
            IF ps.cons = <<>> THEN <<I0("raise")>>
            ELSE IF construct(ps).nt \in {"CYCLE", "CONDEX"}
            THEN <<WarnMsg("Missing colon in construct"), I0("unread"),
                   ExpectNow("expr_val")>> \o Colon(ps)
            ELSE <<Fatal("Malformed Expression - Found '(' or '[' in bad position.")>>
      [] tok.tt = "RPAREN" ->
            Closer({"EXPR", "SCOPE"},
                   "Found ')' but next construct to close is not an expression or scope.")
      [] tok.tt = "RBRACK" ->
            Closer({"CYCLE"}, "Found ']' but next construct to close is not a cycle.")
      [] tok.tt = "COLON" -> Colon(ps)
      [] tok.tt = "QUOI" ->
            IF ps.cons = <<>> THEN <<I0("raise")>>
            ELSE IF construct(ps).nt = "CONDEX"
            THEN <<I0("rebase_construct")>> \o OpenIf \o <<ExpectNow("expr_val"), Continue>>
            ELSE <<>>
      [] tok.tt = "SEMI" ->
            IF ps.cons = <<>> THEN <<I0("raise")>>
            ELSE IF construct(ps).nt = "CONDEX"
            THEN <<I0("rebase_construct"), AddActive("ELSE"), AddActive("EXPR"),
                   ExpectNow("expr_val"), Continue>>
            ELSE <<>>
      [] OTHER -> <<>>

\* expect == paren_contents
BlkParenContents(ps, tok) ==
    IF tok.tt = "AT"
    THEN <<AddConstruct("SCOPE"), ExpectNow("scope_ret"), Continue>>
    ELSE <<AddConstruct("EXPR"), ExpectNow("expr_val"), I0("unread"), Continue>>

\* expect == scope_ret
BlkScopeRet(ps, tok) ==
    IF tok.tt = "GNAME"
    THEN <<AddActiveVal("RETURN", tok), AddActive("SEQ"), ExpectNow("end"), Continue>>
    ELSE <<>>

\* A variant of BlkEnd that terminates: C3 tells it from BlkEnd.
BlkEndFatal(ps, tok) == <<Fatal("Tokens found beyond expected EOL")>>

\* expect == end
BlkEnd(ps, tok) == <<ErrMsg("Tokens found beyond expected EOL"), Break>>

\* The `if expect == ...` blocks in the order of the source.
BlockOrder ==
    <<"initial", "assign", "expr_val", "expr_op", "paren_contents", "scope_ret", "end">>

Block(e, ps, tok) ==
    CASE e = "initial"        -> BlkInitial(ps, tok)
      [] e = "assign"         -> BlkAssign(ps, tok)
      [] e = "expr_val"       -> BlkExprVal(ps, tok)
      [] e = "expr_op"        -> BlkExprOp(ps, tok)
      [] e = "paren_contents" -> BlkParenContents(ps, tok)
      [] e = "scope_ret"      -> BlkScopeRet(ps, tok)
      [] e = "end"            -> BlkEnd(ps, tok)

\* The body of the while loop for one token: each block is entered if the
\* iteration is still running and the expectation is the block's; a token
\* no block takes ends in the internal parser error.
RECURSIVE Blocks(_, _, _)
Blocks(ps, tok, k) ==
    IF ps.ctl # "fall" THEN ps
    ELSE IF k > Len(BlockOrder)
    THEN Terminated(ps, "Internal Parser Error: Uncovered expectation")
    ELSE IF ps.expect = BlockOrder[k]
    THEN Blocks(Run(ps, Block(BlockOrder[k], ps, tok), 1), tok, k + 1)
    ELSE Blocks(ps, tok, k + 1)

ParseToken(ps, tok) == Blocks(ps, tok, 1)

\* The loop after the tokens: return to the nearest sequence or construct.
RECURSIVE LineEnd(_)
LineEnd(ps) ==
    IF ~Ok(ps) THEN ps
    ELSE IF ps.act = <<>> THEN Raise(ps)
    ELSE IF active(ps).nt = "SEQ" THEN ps
    ELSE IF active(ps).nt = "ELSE" THEN LineEnd(conclude_active(conclude_construct(ps)))
    ELSE IF ps.cons = <<>> THEN Raise(ps)
    ELSE IF active(ps).i = construct(ps).i THEN ps
    ELSE LineEnd(conclude_active(ps))

-----------------------------------------------------------------------------
(* Executor: helpers *)

\* jump_node = None
NoJump == -1

\* prog.node(i) on the arena of the current state.
nget(i) == nodes[i + 1]

\* Node.rec_list: the subtree of node i in post-order.
RECURSIVE rec_list(_), RecChildren(_, _)
RecChildren(ch, k) ==
    IF k > Len(ch) THEN <<>> ELSE rec_list(ch[k]) \o RecChildren(ch, k + 1)
rec_list(i) == RecChildren(nget(i).children, 1) \o <<i>>

Range(s) == {s[k] : k \in 1..Len(s)}

Put(f, k, v) == (k :> v) @@ f
Drop(f, ks)  == [k \in DOMAIN f \ ks |-> f[k]]

\* The state execute() works on, as one loop iteration leaves it: ctl is
\* "ok", "terminate" (terminate() was called) or "crash" (an exception).
Step0 ==
    [nv |-> node_values, vv |-> var_values, sm |-> scope_map,
     te |-> Tail(to_exec), jump |-> NoJump, out |-> output, dg |-> diag, ctl |-> "ok"]

\* A variant of Terminate that prints and goes on: C6 tells them apart.
TerminateSoft(r, lptr, msg, arg) ==
    [r EXCEPT !.dg = Append(@, Err(lptr, msg, arg))]

Crash(r) == [r EXCEPT !.ctl = "crash"]
Terminate(r, lptr, msg, arg) ==
    [r EXCEPT !.dg = Append(@, Err(lptr, msg, arg)), !.ctl = "terminate"]

-----------------------------------------------------------------------------
(* Executor: EXPR *)

precedence == [o \in {"PLUS", "MINUS"} |-> 1]

\* A variant of PopsBefore with a strict comparison, which makes the
\* operators associate to the right: C8 tells it from PopsBefore.
PopsBeforeStrict(peek, op) == precedence[peek] > precedence[op]

\* `if precedence[peek] >= precedence[child.val.tt]`
PopsBefore(peek, op) == precedence[peek] >= precedence[op]

\* The while loop over the operator stack for one OP child, then the push.
RECURSIVE PushOp(_, _)
PushOp(q, op) ==
    IF q.opstack = <<>> THEN [q EXCEPT !.opstack = <<op>>]
    ELSE IF PopsBefore(Top(q.opstack), op)
         THEN PushOp([q EXCEPT !.outqueue = Append(@, [k |-> "OP", op |-> Top(q.opstack)]),
                               !.opstack = Pop(@)], op)
         ELSE [q EXCEPT !.opstack = Append(@, op)]

\* `for c in node.children`: a missing operand value is a KeyError.
RECURSIVE ToRPN(_, _, _)
ToRPN(q, ch, k) ==
    IF k > Len(ch) \/ ~q.ok THEN q
    ELSE IF nget(ch[k]).nt = "OP" THEN ToRPN(PushOp(q, nget(ch[k]).val.tt), ch, k + 1)
    ELSE IF ch[k] \notin DOMAIN node_values THEN [q EXCEPT !.ok = FALSE]
    ELSE ToRPN([q EXCEPT !.outqueue = Append(@, [k |-> "VALUE", v |-> node_values[ch[k]]])],
               ch, k + 1)

\* `while opstack: outqueue.append((OP, opstack.pop()))`
RECURSIVE Drain(_)
Drain(q) ==
    IF q.opstack = <<>> THEN q
    ELSE Drain([q EXCEPT !.outqueue = Append(@, [k |-> "OP", op |-> Top(q.opstack)]),
                         !.opstack = Pop(@)])

\* left + right and left - right in Python: integers, or two lists under +.
Apply(op, left, right) ==
    IF IsInt(left) /\ IsInt(right)
    THEN [ok |-> TRUE, v |-> IntV(IF op = "PLUS" THEN left.v + right.v ELSE left.v - right.v)]
    ELSE IF IsList(left) /\ IsList(right) /\ op = "PLUS"
    THEN [ok |-> TRUE, v |-> ListV(left.v \o right.v)]
    ELSE [ok |-> FALSE, v |-> NoneV]

\* The evaluation of the RPN queue; ptr is 0-based as in the source.
\* The result is [ctl, v]: ctl "ok", "malformed" or "crash".
RECURSIVE Reduce(_, _)
Reduce(oq, ptr) ==
    IF Len(oq) <= 1
    THEN IF oq = <<>> THEN [ctl |-> "crash", v |-> NoneV] ELSE [ctl |-> "ok", v |-> oq[1].v]
    ELSE IF ptr = Len(oq) THEN [ctl |-> "malformed", v |-> NoneV]
    ELSE IF oq[ptr + 1].k = "VALUE" THEN Reduce(oq, ptr + 1)
    ELSE IF ptr < 2 THEN [ctl |-> "malformed", v |-> NoneV]
    ELSE LET res == Apply(oq[ptr + 1].op, oq[ptr - 1].v, oq[ptr].v)
         IN IF ~res.ok THEN [ctl |-> "crash", v |-> NoneV]
            ELSE Reduce(SubSeq(oq, 1, ptr - 2) \o <<[k |-> "VALUE", v |-> res.v]>>
                            \o SubSeq(oq, ptr + 2, Len(oq)), ptr - 1)

DoExpr(n) ==
    LET ch == nget(n).children
    IN IF Len(ch) = 1
       THEN IF ch[1] \in DOMAIN node_values
            THEN [Step0 EXCEPT !.nv = Put(@, n, node_values[ch[1]])]
            ELSE Crash(Step0)
       ELSE LET q == Drain(ToRPN([opstack |-> <<>>, outqueue |-> <<>>, ok |-> TRUE], ch, 1))
                r == Reduce(q.outqueue, 0)
            IN IF ~q.ok THEN Crash(Step0)
               ELSE CASE r.ctl = "ok"        -> [Step0 EXCEPT !.nv = Put(@, n, r.v)]
                      [] r.ctl = "malformed" -> Terminate(Step0, nget(n).lptr, "Malformed Arithmatic", <<>>)
                      [] OTHER               -> Crash(Step0)

-----------------------------------------------------------------------------
(* Executor: the other node kinds *)

DoValue(n) ==
    LET tok == nget(n).val
    IN CASE tok.tt = "NUMBER" -> [Step0 EXCEPT !.nv = Put(@, n, IntV(tok.val))]
         [] tok.tt = "GNAME" ->
               IF tok.val \in DOMAIN var_values
               THEN [Step0 EXCEPT !.nv = Put(@, n, var_values[tok.val])]
               ELSE Terminate(Step0, nget(n).lptr, "Undefined global name", tok.val)
         [] tok.tt = "LNAME" ->
               IF tok.val \in DOMAIN var_values
               THEN [Step0 EXCEPT !.nv = Put(@, n, var_values[tok.val])]
               ELSE Terminate(Step0, nget(n).lptr, "Undefined local name", tok.val)
         [] OTHER -> Step0

DoLValue(n) ==
    LET name == nget(n).val.val
        sig  == nget(n).scope_sig
    IN IF name \notin DOMAIN var_values /\ name # <<"!">>
       THEN [Step0 EXCEPT
               !.vv = Put(@, name, NoneV),
               !.sm = IF nget(n).val.tt = "LNAME"
                      THEN IF sig \notin DOMAIN @ THEN Put(@, sig, <<name>>)
                           ELSE Put(@, sig, Append(@[sig], name))
                      ELSE @]
       ELSE Step0

\* A variant of DoAssign that stores under `!` as under any name: C7 tells
\* it from DoAssign.
DoAssignStoreAll(n) ==
    LET ch    == nget(n).children
        lname == nget(ch[1]).val.val
    IN IF Len(ch) < 2 THEN Crash(Step0)
       ELSE IF ch[2] \notin DOMAIN node_values THEN Crash(Step0)
       ELSE [Step0 EXCEPT !.vv = Put(@, lname, node_values[ch[2]])]

DoAssign(n) ==
    LET ch    == nget(n).children
        lname == nget(ch[1]).val.val
    IN IF Len(ch) < 2 THEN Crash(Step0)
       ELSE IF ch[2] \notin DOMAIN node_values THEN Crash(Step0)
       ELSE IF lname = <<"!">>
       THEN [Step0 EXCEPT !.out = Append(@, node_values[ch[2]])]
       ELSE [Step0 EXCEPT !.vv = Put(@, lname, node_values[ch[2]])]

DoReturn(n) ==
    LET name == nget(n).val.val
        found_local == \E sig \in DOMAIN scope_map : name \in Range(scope_map[sig])
    IN IF found_local
       THEN IF name \in DOMAIN var_values
            THEN [Step0 EXCEPT !.nv = Put(@, n, var_values[name])]
            ELSE Crash(Step0)
       ELSE Terminate(Step0, nget(n).lptr, "is not an in-scope local variable.", name)

\* A variant of DoScope that removes the names recorded under every
\* signature: C20 tells it from DoScope.
DoScopeDropAll(n) ==
    LET ch  == nget(n).children
        sig == nget(n).scope_sig
        all == UNION {Range(scope_map[s]) : s \in DOMAIN scope_map}
    IN IF ch = <<>> THEN Crash(Step0)
       ELSE IF ch[1] \notin DOMAIN node_values THEN Crash(Step0)
       ELSE LET a == [Step0 EXCEPT !.nv = Put(@, n, node_values[ch[1]])]
            IN IF sig \notin DOMAIN scope_map THEN a
               ELSE [a EXCEPT !.vv = Drop(@, all),
                              !.sm = Drop(@, {sig})]

DoScope(n) ==
    LET ch  == nget(n).children
        sig == nget(n).scope_sig
    IN IF ch = <<>> THEN Crash(Step0)
       ELSE IF ch[1] \notin DOMAIN node_values THEN Crash(Step0)
       ELSE LET a == [Step0 EXCEPT !.nv = Put(@, n, node_values[ch[1]])]
            IN IF sig \notin DOMAIN scope_map THEN a
               ELSE IF Range(scope_map[sig]) \subseteq DOMAIN var_values
                       /\ Cardinality(Range(scope_map[sig])) = Len(scope_map[sig])
               THEN [a EXCEPT !.vv = Drop(@, Range(scope_map[sig])),
                              !.sm = Drop(@, {sig})]
               ELSE Crash(a)

\* A variant of Test whose cycle test is ev < 0: C18 tells it from Test.
TestNegative(test, ev) ==
    IF ev.t \in {"int", "bool"}
    THEN LET x == IF ev.t = "bool" THEN (IF ev.v THEN 1 ELSE 0) ELSE ev.v
         IN [ok |-> TRUE, v |-> IF test = "gt0" THEN x > 0 ELSE x < 0]
    ELSE [ok |-> FALSE, v |-> FALSE]

\* A variant of Test whose IF test is ev >= 0: C1 tells it from Test.
TestNonNegative(test, ev) ==
    IF ev.t \in {"int", "bool"}
    THEN LET x == IF ev.t = "bool" THEN (IF ev.v THEN 1 ELSE 0) ELSE ev.v
         IN [ok |-> TRUE, v |-> IF test = "gt0" THEN x >= 0 ELSE x <= 0]
    ELSE [ok |-> FALSE, v |-> FALSE]

\* node.val[0](ev): the lambda of the payload; comparing None or a list
\* with 0 is a TypeError.
Test(test, ev) ==
    IF ev.t \in {"int", "bool"}
    THEN LET x == IF ev.t = "bool" THEN (IF ev.v THEN 1 ELSE 0) ELSE ev.v
         IN [ok |-> TRUE, v |-> IF test = "gt0" THEN x > 0 ELSE x <= 0]
    ELSE [ok |-> FALSE, v |-> FALSE]

DoPredicate(n) ==
    LET ch  == nget(n).children
        val == nget(n).val
    IN IF ch = <<>> THEN Crash(Step0)
       ELSE IF ch[1] \notin DOMAIN node_values THEN Crash(Step0)
       ELSE LET result == Test(val.test, node_values[ch[1]])
            IN IF ~result.ok THEN Crash(Step0)
               ELSE [Step0 EXCEPT
                       !.nv = Put(@, n, BoolV(result.v)),
                       !.jump = IF result.v THEN val.jumps[1]
                                ELSE IF 1 + Len(val.jumps) > 2 THEN val.jumps[2]
                                ELSE NoJump]

\* A variant of Pushed that puts the body value in front: C4 tells them apart.
PushedFront(n, body) ==
    IF n \in DOMAIN node_values THEN ListV(<<body>> \o node_values[n].v)
    ELSE ListV(<<body>>)

\* The value a cycle takes when an iteration's body value is pushed.
Pushed(n, body) ==
    IF n \in DOMAIN node_values THEN ListV(Append(node_values[n].v, body))
    ELSE ListV(<<body>>)

DoCycle(n) ==
    LET ch == nget(n).children
    IN IF ch = <<>> THEN Crash(Step0)
       ELSE IF ch[1] \notin DOMAIN node_values THEN Crash(Step0)
       ELSE IF Truthy(node_values[ch[1]])
       THEN IF n \notin DOMAIN node_values
            THEN [Step0 EXCEPT !.nv = Put(@, n, ListV(<<>>))]
            ELSE Step0
       ELSE IF Len(ch) < 2 THEN Crash(Step0)
       ELSE IF ch[2] \notin DOMAIN node_values THEN Crash(Step0)
       ELSE LET child_indexes == Range(rec_list(n)) \ {n}
            IN [Step0 EXCEPT
                  !.nv = Drop(Put(@, n, Pushed(n, node_values[ch[2]])), child_indexes),
                  !.te = rec_list(n) \o @]

\* `for c in node.children` of a CONDEX seen for the first time.
RECURSIVE Arms(_, _, _, _)
Arms(r, n, ch, k) ==
    IF k > Len(ch) THEN r
    ELSE LET block == nget(ch[k])
         IN CASE block.nt = "IF" ->
                   IF block.children = <<>> THEN Crash(r)
                   ELSE IF block.children[1] \notin DOMAIN r.nv THEN Crash(r)
                   ELSE IF Truthy(r.nv[block.children[1]])
                   THEN IF Len(block.children) < 2 THEN Crash(r)
                        ELSE [r EXCEPT !.te = rec_list(block.children[2]) \o <<n>> \o @,
                                       !.nv = Put(@, n, IntV(block.children[2]))]
                   ELSE Arms(r, n, ch, k + 1)
              [] block.nt = "ELSE" ->
                   IF block.i \notin DOMAIN r.nv THEN Crash(r)
                   ELSE Arms([r EXCEPT !.nv = Put(@, n, r.nv[block.i])], n, ch, k + 1)
              [] OTHER -> Arms(r, n, ch, k + 1)

DoCondex(n) ==
    IF n \in DOMAIN node_values
    THEN IF IsInt(node_values[n]) /\ node_values[n].v \in DOMAIN node_values
         THEN [Step0 EXCEPT !.nv = Put(@, n, node_values[node_values[n].v])]
         ELSE Crash(Step0)
    ELSE Arms(Step0, n, nget(n).children, 1)

DoElse(n) ==
    LET ch == nget(n).children
    IN IF ch = <<>> THEN Crash(Step0)
       ELSE IF ch[1] \notin DOMAIN node_values THEN Crash(Step0)
       ELSE [Step0 EXCEPT !.nv = Put(@, n, node_values[ch[1]])]

-----------------------------------------------------------------------------
(* History: what the cycles have been observed to do.  For a CYCLE node c, *)
(* hist[c].n counts the predicate checks of the current run that found a   *)
(* value > 0, hist[c].bodies lists the values the body EXPR took in this   *)
(* run, and hist[c].passed says that execution has passed the cycle: the   *)
(* CYCLE node was executed after a check that found a value <= 0.          *)

FreshRun == [n |-> 0, bodies |-> <<>>, passed |-> FALSE]
RunOf(c) == IF c \in DOMAIN hist /\ ~hist[c].passed THEN hist[c] ELSE FreshRun

IsPositive(x) == IsInt(x) /\ x.v > 0

Observe(n, r) ==
    LET node == nget(n)
        par  == nget(node.parent)
    IN IF r.ctl # "ok" \/ node.parent < 0 THEN hist
       ELSE IF node.nt = "PREDICATE" /\ par.nt = "CYCLE"
       THEN Put(hist, par.i,
                [RunOf(par.i) EXCEPT !.n = IF IsPositive(node_values[node.children[1]])
                                           THEN @ + 1 ELSE @])
       ELSE IF node.nt = "EXPR" /\ par.nt = "CYCLE" /\ Len(par.children) >= 2
               /\ par.children[2] = n
       THEN Put(hist, par.i, [RunOf(par.i) EXCEPT !.bodies = Append(@, r.nv[n])])
       ELSE IF node.nt = "CYCLE"
               /\ ~IsPositive(node_values[nget(node.children[1]).children[1]])
       THEN Put(hist, n, [RunOf(n) EXCEPT !.passed = TRUE])
       ELSE hist

-----------------------------------------------------------------------------
(* Input: the programs fed to the interpreter, as lines of characters. *)

LnCondex == <<"y",":"," ","(","?"," ","x"," ",":"," ","1","0"," ",";"," ","2","0",")","\n">>
LnCondexNoElse == <<"y",":"," ","(","?"," ","x"," ",":"," ","1","0",")","\n">>
LnCondex2 == <<"y",":"," ","(","?"," ","a"," ",":"," ","1"," ","?"," ","b"," ",":"," ","2"," ",";"," ","3",")","\n">>
LnCondex2NoElse == <<"y",":"," ","(","?"," ","a"," ",":"," ","1"," ","?"," ","b"," ",":"," ","2",")","\n">>
LnOutY == <<"!",":"," ","y","\n">>
LnOutX == <<"!",":"," ","x","\n">>
LnOutN == <<"!",":"," ","n","\n">>
LnOutR == <<"!",":"," ","r","\n">>
LnOut7 == <<"!",":"," ","7","\n">>
LnN3 == <<"n",":"," ","3","\n">>
LnCycleExpr == <<"r",":"," ","[","n"," ",":"," ","n"," ","-"," ","1","]","\n">>
LnScopeOneLine == <<"y",":"," ","(","@"," ","a","'",":"," ","5"," ","a","'",")","\n">>
LnCycleScope == <<"r",":"," ","[","n"," ",":"," ","(","@"," ","a","\n">>
LnDecN == <<"n",":"," ","n"," ","-"," ","1","\n">>
LnLocalAN == <<"'","a","'",":"," ","n","\n">>
LnCloseBoth == <<")","]","\n">>
LnMFromN == <<"m",":"," ","n","\n">>
LnInnerCycle == <<"'","a","'",":"," ","[","m"," ",":"," ","(","@"," ","b","\n">>
LnDecM == <<"m",":"," ","m"," ","-"," ","1","\n">>
LnLocalBM == <<"'","b","'",":"," ","m","\n">>
LnLocalACondex == <<"'","a","'",":"," ","(","?"," ","n"," ",":"," ","1","0"," ",";"," ","2","0",")","\n">>
LnScopeA == <<"y",":"," ","(","@"," ","a","\n">>
LnScopeB == <<"y",":"," ","(","@"," ","b","\n">>
LnLocalA5 == <<"'","a","'",":"," ","5","\n">>
LnGlobalA5 == <<"a",":"," ","5","\n">>
LnGlobalA1 == <<"a",":"," ","1","\n">>
LnLocalA1 == <<"'","a","'",":"," ","1","\n">>
LnOutLocalA == <<"!",":"," ","'","a","'","\n">>
LnClose == <<")","\n">>
LnLocalB2 == <<"'","b","'",":"," ","2","\n">>
LnInnerScope == <<"'","a","'",":"," ","(","@"," ","c","\n">>
LnLocalCB1 == <<"'","c","'",":"," ","'","b","'"," ","+"," ","1","\n">>
LnUndefG == <<"!",":"," ","z","z","z","\n">>
LnUndefL == <<"!",":"," ","'","q","'","\n">>
LnOut1 == <<"!",":"," ","1","\n">>
LnSelfRef == <<"x",":"," ","x"," ","+"," ","1","\n">>
LnSub3 == <<"!",":"," ","5"," ","-"," ","2"," ","-"," ","1","\n">>
LnSubAdd == <<"!",":"," ","5"," ","-"," ","2"," ","+"," ","1","\n">>
LnFour == <<"!",":"," ","9"," ","-"," ","4"," ","+"," ","2"," ","-"," ","6","\n">>
LnTrailOp == <<"!",":"," ","1"," ","+","\n">>
LnTrailOp2 == <<"!",":"," ","1"," ","+"," ","2"," ","-","\n">>
LnBadStart == <<":"," ","1","\n">>
LnBadCloser == <<"x",":"," ","1"," ",")","\n">>
LnBrackParen == <<"x",":"," ","[","1"," ",":"," ","2"," ",")","\n">>
LnParenBrack == <<"x",":"," ","(","1"," ","]","\n">>
LnColonOut == <<"x",":"," ","1"," ",":"," ","2","\n">>
LnColonElse == <<"y",":"," ","(","?"," ","1"," ",":"," ","2"," ",";"," ","3"," ",":"," ","4",")","\n">>
LnScopeTrail == <<"y",":"," ","(","@"," ","a"," ","b","\n">>
LnNoColon == <<"x"," ","1","\n">>
LnTwoValues == <<"x",":"," ","1"," ","2","\n">>
LnBadParen == <<"x",":"," ","(","1"," ","(","2",")",")","\n">>
LnImplied == <<"x",":"," ","[","0"," ","(","2",")","]","\n">>
LnBangValue == <<"x",":"," ","!","\n">>
LnNoNewline == <<"!",":"," ","3">>
LnBareCondex == <<"y",":"," ","?"," ","0"," ",":"," ","1"," ",";"," ","2","\n">>
LnXNoNewline == <<"x",":"," ","3">>
LnBareName == <<"x","\n">>
LnCondexElseIf == <<"y",":"," ","(","?"," ","x"," ",":"," ","1"," ",";"," ","2"," ","?"," ","x"," ",":"," ","3",")","\n">>
LnCondexTwoElse == <<"y",":"," ","(","?"," ","x"," ",":"," ","1"," ",";"," ","2"," ",";"," ","3",")","\n">>
LnOpenParen == <<"y",":"," ","(","1","\n">>
LnX2 == <<"x",":"," ","2","\n">>
LnCondexOpen == <<"y",":"," ","(","?"," ","x"," ",":"," ","1"," ",";"," ","2","\n">>
LnCondexOpenNoElse == <<"y",":"," ","(","?"," ","x"," ",":"," ","1","\n">>
LnGlobalG7 == <<"g",":"," ","7","\n">>
LnOutG == <<"!",":"," ","g","\n">>
LnScopeBang == <<"y",":"," ","(","@"," ","!","\n">>
LnZColon == <<"z",":"," ","1"," ",":"," ","2","\n">>
LnOutLocalPlus == <<"!",":"," ","'","a","+","1","\n">>
LnOutLocalDollar == <<"!",":"," ","'","a","$","\n">>

\* The decimal digits of a number below 10, and a line assigning a value
\* v >= -9 to a global: `x: 2`, or `x: 0 - 1` for a negative one.
Num(v) == <<DigitChars[v + 1]>>
LnSet(name, v) ==
    IF v >= 0 THEN <<name, ":", " ">> \o Num(v) \o <<"\n">>
    ELSE <<name, ":", " ", "0", " ", "-", " ">> \o Num(0 - v) \o <<"\n">>
OpChar(op) == IF op = "PLUS" THEN "+" ELSE "-"
LnArith(a, o1, b, o2, c) ==
    <<"x", ":", " ">> \o Num(a) \o <<" ", OpChar(o1), " ">> \o Num(b)
        \o <<" ", OpChar(o2), " ">> \o Num(c) \o <<"\n">>

Vals    == 0..MaxVal
SignedVals == -1..MaxVal

ProgCondex(v)        == <<LnSet("x", v), LnCondex, LnOutY>>
ProgCondexNoElse(v)  == <<LnSet("x", v), LnCondexNoElse, LnOutY>>
ProgCondex2(a, b)    == <<LnSet("a", a), LnSet("b", b), LnCondex2, LnOutY>>
ProgCondex2NoElse(a, b) == <<LnSet("a", a), LnSet("b", b), LnCondex2NoElse, LnOutY>>
ProgBareCondex       == <<LnBareCondex, LnOutY>>
ProgCycleExpr        == <<LnN3, LnCycleExpr, LnOutN>>
ProgScopeOneLine     == <<LnScopeOneLine, LnOutY>>
ProgCountdown(v)     == <<LnSet("n", v), LnCycleScope, LnDecN, LnLocalAN, LnCloseBoth,
                          LnOutR, LnOutN>>
ProgCountdownCondex(v) == <<LnSet("n", v), LnCycleScope, LnDecN, LnLocalACondex,
                            LnCloseBoth, LnOutR>>
ProgNested(v)        == <<LnSet("n", v), LnCycleScope, LnMFromN, LnInnerCycle, LnDecM,
                          LnLocalBM, LnCloseBoth, LnDecN, LnCloseBoth, LnOutR>>
ProgScope            == <<LnScopeA, LnLocalA5, LnClose, LnOutY>>
ProgScopeShadow      == <<LnGlobalA1, LnScopeA, LnLocalA5, LnClose, LnOutY>>
ProgScopeGlobalRet   == <<LnScopeA, LnGlobalA5, LnClose, LnOutY>>
ProgScopeOtherRet    == <<LnScopeB, LnLocalA5, LnClose, LnOutY>>
ProgScopeRootLocal   == <<LnLocalA1, LnScopeA, LnLocalA5, LnClose, LnOutY, LnOutLocalA>>
ProgScopeNested      == <<LnScopeA, LnLocalB2, LnInnerScope, LnLocalCB1, LnClose, LnClose,
                          LnOutY>>
ProgArith(a, o1, b, o2, c) == <<LnArith(a, o1, b, o2, c), LnOutX>>
ProgBareName         == <<LnBareName, LnOut7>>
ProgCondexElseIf(v)  == <<LnSet("x", v), LnCondexElseIf, LnOutY>>
ProgCondexTwoElse(v) == <<LnSet("x", v), LnCondexTwoElse, LnOutY>>
ProgStatementInParen == <<LnOpenParen, LnX2, LnClose, LnOutY>>
ProgCondexOpen(v)    == <<LnSet("x", v), LnCondexOpen, LnClose, LnOutY>>
ProgCondexOpenNoElse(v) == <<LnSet("x", v), LnCondexOpenNoElse, LnClose, LnOutY>>
ProgScopeGlobal      == <<LnScopeA, LnGlobalG7, LnLocalA5, LnClose, LnOutG, LnOutY>>
ProgScopeBang        == <<LnScopeBang, LnClose, LnOutY>>
ProgColonInArm(v)    == <<LnSet("x", v), LnCondexOpenNoElse, LnZColon, LnOutY>>
ProgBadLocalPlus     == <<LnLocalA1, LnOutLocalPlus>>
ProgBadLocalDollar   == <<LnLocalA1, LnOutLocalDollar>>

Ops == {"PLUS", "MINUS"}

Programs ==
    {ProgCondex(v) : v \in SignedVals}
    \cup {ProgCondexNoElse(v) : v \in SignedVals}
    \cup {ProgCondex2(a, b) : a \in SignedVals, b \in SignedVals}
    \cup {ProgCondex2NoElse(a, b) : a \in SignedVals, b \in SignedVals}
    \cup {ProgCountdown(v) : v \in Vals}
    \cup {ProgCountdownCondex(v) : v \in Vals}
    \cup {ProgNested(v) : v \in Vals}
    \cup {ProgArith(a, o1, b, o2, c) : a \in Vals, b \in Vals, c \in Vals, o1 \in Ops, o2 \in Ops}
    \cup {ProgScopeBang, ProgBadLocalPlus, ProgBadLocalDollar}
    \cup {ProgColonInArm(v) : v \in Vals}
    \cup {ProgBareCondex, ProgCycleExpr, ProgScopeOneLine, ProgScope, ProgScopeShadow,
          ProgScopeGlobalRet, ProgScopeOtherRet, ProgScopeRootLocal, ProgScopeNested}
    \cup {<<LnUndefG>>, <<LnOut1, LnUndefL, LnOut7>>, <<LnSelfRef, LnOutX>>,
          <<LnSub3, LnSubAdd, LnFour>>, <<LnOut1, LnTrailOp, LnOut7>>, <<LnTrailOp2>>,
          <<LnNoNewline>>, <<LnImplied, LnOutX>>, <<LnBangValue, LnOut7>>}
    \cup {<<LnOut1, bad, LnOut7>> :
            bad \in {LnBadStart, LnBadCloser, LnBrackParen, LnParenBrack, LnClose,
                     LnColonElse, LnNoColon, LnTwoValues, LnBadParen}}
    \cup {<<LnColonOut, LnOutX>>, <<LnScopeTrail, LnOut7>>}
    \cup {ProgCondexElseIf(v) : v \in Vals}
    \cup {ProgCondexTwoElse(v) : v \in Vals}
    \cup {ProgCondexOpen(v) : v \in Vals}
    \cup {ProgCondexOpenNoElse(v) : v \in Vals}
    \cup {<<LnXNoNewline>>, ProgBareName, ProgStatementInParen, ProgScopeGlobal}

-----------------------------------------------------------------------------
(* The state machine *)

Init ==
    /\ pc = "feed"
    /\ src \in Programs
    /\ lines = <<>>
    /\ toks = <<>>
    /\ index = -1
    /\ expect = "initial"
    /\ nodes = <<Node(0, 0, -1, "SEQ", <<0>>, None)>>
    /\ cons_stack = <<0>>
    /\ active_stack = <<0>>
    /\ scope_stack = <<0>>
    /\ cur_lptr = 0
    /\ to_exec = <<>>
    /\ jump_node = NoJump
    /\ node_values = <<>>
    /\ var_values = <<>>
    /\ scope_map = (<<0>> :> <<>>)
    /\ output = <<>>
    /\ diag = <<>>
    /\ hist = <<>>

\* feed(line): the line is stored and tokenised, and parse() starts.
Feed ==
    /\ pc = "feed"
    /\ src # <<>>
    /\ LET lptr == Len(lines)
           lex  == tokenise(Head(src), lptr)
       IN /\ lines' = Append(lines, Head(src))
          /\ src' = Tail(src)
          /\ toks' = lex.toks
          /\ diag' = diag \o lex.errs
          /\ cur_lptr' = lptr
    /\ index' = -1
    /\ expect' = "initial"
    /\ pc' = "parse"
    /\ UNCHANGED <<nodes, cons_stack, active_stack, scope_stack, execVars>>

ParserState ==
    [nodes |-> nodes, cons |-> cons_stack, act |-> active_stack, scp |-> scope_stack,
     lptr |-> cur_lptr, expect |-> expect, index |-> index, diag |-> diag, ctl |-> "fall"]

SetParser(ps) ==
    /\ nodes' = ps.nodes
    /\ cons_stack' = ps.cons
    /\ active_stack' = ps.act
    /\ scope_stack' = ps.scp
    /\ expect' = ps.expect
    /\ index' = ps.index
    /\ diag' = ps.diag
    /\ UNCHANGED <<src, lines, toks, cur_lptr, execVars>>

\* One iteration of `while (index + 1) < len(toks)`, entered in state e.
ParseIn(e) ==
    /\ pc = "parse"
    /\ index + 1 < Len(toks)
    /\ expect = e
    /\ LET ps == ParseToken([ParserState EXCEPT !.index = index + 1], toks[index + 2])
       IN /\ SetParser(ps)
          /\ pc' = CASE ps.ctl = "continue"  -> "parse"
                     [] ps.ctl = "break"     -> "eol"
                     [] ps.ctl = "terminate" -> "terminated"
                     [] OTHER                -> "crashed"

ParseInitial       == ParseIn("initial")
ParseAssign        == ParseIn("assign")
ParseExprVal       == ParseIn("expr_val")
ParseExprOp        == ParseIn("expr_op")
ParseParenContents == ParseIn("paren_contents")
ParseScopeRet      == ParseIn("scope_ret")
ParseEnd           == ParseIn("end")

\* After the loop: the warning, then the rebase to a sequence or construct.
ParseLineEnd ==
    /\ pc = "eol" \/ (pc = "parse" /\ index + 1 >= Len(toks))
    /\ LET w  == IF expect \notin {"initial", "end", "expr_op"}
                 THEN PWarn(ParserState, "weird expect at nl") ELSE ParserState
           ps == LineEnd(w)
       IN /\ SetParser(ps)
          /\ pc' = IF Ok(ps) THEN "feed" ELSE "crashed"

\* execute(): the work list is the post-order of the root.
Execute ==
    /\ pc = "feed"
    /\ src = <<>>
    /\ pc' = "exec"
    /\ to_exec' = rec_list(0)
    /\ jump_node' = NoJump
    /\ node_values' = <<>>
    /\ var_values' = <<>>
    /\ scope_map' = (<<0>> :> <<>>)
    /\ UNCHANGED <<src, lines, parseVars, progVars, output, diag, hist>>

Commit(n, r) ==
    /\ node_values' = r.nv
    /\ var_values' = r.vv
    /\ scope_map' = r.sm
    /\ to_exec' = r.te
    /\ jump_node' = r.jump
    /\ output' = r.out
    /\ diag' = r.dg
    /\ hist' = Observe(n, r)
    /\ pc' = CASE r.ctl = "ok"        -> "exec"
               [] r.ctl = "terminate" -> "terminated"
               [] OTHER               -> "crashed"
    /\ UNCHANGED <<src, lines, parseVars, progVars>>

\* The node popped from the work list is evaluated: no jump is under way,
\* or the node is the jump's target.
Running(kinds) ==
    /\ pc = "exec"
    /\ to_exec # <<>>
    /\ jump_node \in {NoJump, Head(to_exec)}
    /\ nget(Head(to_exec)).nt \in kinds

\* `if node.i != jump_node: continue`
ExecSkip ==
    /\ pc = "exec"
    /\ to_exec # <<>>
    /\ jump_node \notin {NoJump, Head(to_exec)}
    /\ to_exec' = Tail(to_exec)
    /\ UNCHANGED <<pc, src, lines, parseVars, progVars, jump_node, node_values,
                   var_values, scope_map, output, diag, hist>>

ExecValue     == Running({"VALUE"})     /\ Commit(Head(to_exec), DoValue(Head(to_exec)))
ExecExpr      == Running({"EXPR"})      /\ Commit(Head(to_exec), DoExpr(Head(to_exec)))
ExecLValue    == Running({"LVALUE"})    /\ Commit(Head(to_exec), DoLValue(Head(to_exec)))
ExecAssign    == Running({"ASSIGN"})    /\ Commit(Head(to_exec), DoAssign(Head(to_exec)))
ExecReturn    == Running({"RETURN"})    /\ Commit(Head(to_exec), DoReturn(Head(to_exec)))
ExecScope     == Running({"SCOPE"})     /\ Commit(Head(to_exec), DoScope(Head(to_exec)))
ExecPredicate == Running({"PREDICATE"}) /\ Commit(Head(to_exec), DoPredicate(Head(to_exec)))
ExecCondex    == Running({"CONDEX"})    /\ Commit(Head(to_exec), DoCondex(Head(to_exec)))
ExecElse      == Running({"ELSE"})      /\ Commit(Head(to_exec), DoElse(Head(to_exec)))
\* SEQ, OP and IF nodes have no branch in execute().
ExecOther     == Running({"SEQ", "OP", "IF"}) /\ Commit(Head(to_exec), Step0)

\* The model follows a cycle until its sequence holds MaxCycleLen values.
ExecCycle ==
    /\ Running({"CYCLE"})
    /\ Head(to_exec) \in DOMAIN node_values
          => Len(node_values[Head(to_exec)].v) < MaxCycleLen
    /\ Commit(Head(to_exec), DoCycle(Head(to_exec)))

\* `while to_exec` ends.
Finish ==
    /\ pc = "exec"
    /\ to_exec = <<>>
    /\ pc' = "done"
    /\ UNCHANGED <<src, lines, parseVars, progVars, execVars, diag>>

Next ==
    \/ Feed
    \/ ParseInitial
    \/ ParseAssign
    \/ ParseExprVal
    \/ ParseExprOp
    \/ ParseParenContents
    \/ ParseScopeRet
    \/ ParseEnd
    \/ ParseLineEnd
    \/ Execute
    \/ ExecSkip
    \/ ExecValue
    \/ ExecExpr
    \/ ExecLValue
    \/ ExecAssign
    \/ ExecReturn
    \/ ExecScope
    \/ ExecPredicate
    \/ ExecCycle
    \/ ExecCondex
    \/ ExecElse
    \/ ExecOther
    \/ Finish

Spec == Init /\ [][Next]_vars

-----------------------------------------------------------------------------
(* Properties.  Program is the whole of standard input, whatever part of   *)
(* it has been fed; Terminal says the interpreter has stopped.             *)

Program  == lines \o src
Terminal == pc \in {"done", "terminated", "crashed"}

NodeIds   == 0..(Len(nodes) - 1)
Valued(i) == i \in DOMAIN node_values
Pending(i) == i \in Range(to_exec)
LastDiag  == diag[Len(diag)]

-----------------------------------------------------------------------------
(* C1 *)

\* The EXPR under the PREDICATE of an IF arm, and the arm's body.
ArmTest(arm) == nget(nget(arm).children[1]).children[1]
ArmBody(arm) == nget(arm).children[2]

\* The arms of c are IF arms followed by an optional ELSE.
ArmsThenElse(c) ==
    LET ch == nget(c).children
    IN /\ ch # <<>>
       /\ \A k \in 1..Len(ch) :
            \/ /\ nget(ch[k]).nt = "IF"
               /\ Len(nget(ch[k]).children) = 2
               /\ nget(nget(ch[k]).children[1]).nt = "PREDICATE"
               /\ Len(nget(nget(ch[k]).children[1]).children) = 1
            \/ /\ nget(ch[k]).nt = "ELSE"
               /\ k = Len(ch)
               /\ Len(nget(ch[k]).children) = 1

\* The value of c is the body value of the leftmost IF arm whose test is
\* > 0, or the ELSE body's value when every IF arm's test is <= 0.
LeftmostArmDecides(c) ==
    LET ch == nget(c).children
    IN \E k \in 1..Len(ch) :
         /\ \A j \in 1..(k - 1) :
               /\ nget(ch[j]).nt = "IF"
               /\ Valued(ArmTest(ch[j]))
               /\ ~IsPositive(node_values[ArmTest(ch[j])])
         /\ \/ /\ nget(ch[k]).nt = "IF"
               /\ Valued(ArmTest(ch[k]))
               /\ IsPositive(node_values[ArmTest(ch[k])])
               /\ Valued(ArmBody(ch[k]))
               /\ node_values[c] = node_values[ArmBody(ch[k])]
            \/ /\ nget(ch[k]).nt = "ELSE"
               /\ Valued(nget(ch[k]).children[1])
               /\ node_values[c] = node_values[nget(ch[k]).children[1]]

\* C1: every conditional expression of IF arms and an optional ELSE that
\* has ended with a value (it holds one and is no longer on the work list)
\* holds the body value of the leftmost IF arm whose predicate value is
\* > 0, or the ELSE body's value if no IF arm's predicate is > 0; with
\* x = v the program `y: (? x : 10 ; 20)`, `!: y` outputs 10 when v > 0 and
\* 20 otherwise, and `y: (? a : 1 ? b : 2 ; 3)` outputs the first arm taken.
C1_LeftmostArmWins ==
    /\ \A c \in NodeIds :
          (nget(c).nt = "CONDEX" /\ ArmsThenElse(c) /\ Valued(c) /\ ~Pending(c)
              /\ pc \in {"exec", "done"})
            => LeftmostArmDecides(c)
    /\ \A v \in SignedVals :
          (Program = ProgCondex(v) /\ pc = "done")
            => output = <<IntV(IF v > 0 THEN 10 ELSE 20)>>
    /\ \A a \in SignedVals, b \in SignedVals :
          (Program = ProgCondex2(a, b) /\ pc = "done")
            => output = <<IntV(IF a > 0 THEN 1 ELSE IF b > 0 THEN 2 ELSE 3)>>

\* Both IF arms match and the run has ended: the left one gave the value.
C1_Witness ==
    /\ Program = ProgCondex2(1, 1)
    /\ pc = "done"
    /\ output = <<IntV(1)>>
    /\ \E c \in NodeIds : nget(c).nt = "CONDEX" /\ Valued(c) /\ LeftmostArmDecides(c)

-----------------------------------------------------------------------------
(* C2 *)

CycleNodes == {i \in NodeIds : nget(i).nt = "CYCLE"}

\* C2 (amended): the program `n: 3`, `r: [n : n - 1]`, `!: n` does not
\* terminate.  The body n - 1 assigns nothing, so n stays 3, every check of
\* the predicate lets the body run, each iteration appends 2 to the cycle's
\* sequence, r is never bound to a sequence, nothing is output and the
\* executor never reaches the end of the work list.
C2_CycleNeverEnds ==
    Program = ProgCycleExpr =>
       /\ pc \notin {"done", "terminated", "crashed"}
       /\ output = <<>>
       /\ <<"n">> \in DOMAIN var_values => var_values[<<"n">>] \in {NoneV, IntV(3)}
       /\ <<"r">> \in DOMAIN var_values => var_values[<<"r">>] = NoneV
       /\ \A c \in CycleNodes :
             Valued(c) =>
                /\ IsList(node_values[c])
                /\ \A k \in 1..Len(node_values[c].v) : node_values[c].v[k] = IntV(2)
                /\ Pending(c)
                /\ var_values[<<"n">>] = IntV(3)

\* The cycle has gone round more than three times.
C2_Witness ==
    /\ Program = ProgCycleExpr
    /\ \E c \in CycleNodes : Valued(c) /\ Len(node_values[c].v) > 3

IsPrefix(s, t) == Len(s) <= Len(t) /\ s = SubSeq(t, 1, Len(s))

\* C2 as stated: the run of `n: 3`, `r: [n : n - 1]`, `!: n` ends with r
\* bound to [3, 2, 1] and n output once; so the sequence the cycle
\* accumulates is at every moment a prefix of [3, 2, 1], and a finished run
\* has output exactly one value.
C2_Original ==
    Program = ProgCycleExpr =>
       /\ \A c \in CycleNodes :
             Valued(c) => IsPrefix(node_values[c].v, <<IntV(3), IntV(2), IntV(1)>>)
       /\ pc = "done" =>
             /\ Len(output) = 1
             /\ <<"r">> \in DOMAIN var_values
             /\ var_values[<<"r">>] = ListV(<<IntV(3), IntV(2), IntV(1)>>)

-----------------------------------------------------------------------------
(* C3 *)

NameA == <<"a">>

\* C3 (amended): the program `y: (@ a': 5 a')`, `!: y` is parsed with
\* non-fatal diagnostics only (two bad characters in a local identifier and
\* tokens beyond the expected end of line, all on line 1); execution
\* outputs None, then the RETURN of a reports that a is not an in-scope
\* local variable and the interpreter terminates.  The run never ends
\* normally, 5 is never output, and a is never a key of the environment.
C3_OneLineScope ==
    Program = ProgScopeOneLine =>
       /\ pc \notin {"done", "crashed"}
       /\ output \in {<<>>, <<NoneV>>}
       /\ NameA \notin DOMAIN var_values
       /\ pc = "terminated" =>
             /\ src = <<>>
             /\ output = <<NoneV>>
             /\ diag = <<Err(0, "Bad character in local identifier", <<":">>),
                         Err(0, "Bad character in local identifier", <<")">>),
                         Err(0, "Tokens found beyond expected EOL", <<>>),
                         Err(0, "is not an in-scope local variable.", NameA)>>

C3_Witness ==
    /\ Program = ProgScopeOneLine
    /\ pc = "terminated"
    /\ output = <<NoneV>>

\* C3 as stated: `y: (@ a': 5 a')`, `!: y` parses without a fatal
\* diagnostic, execution outputs 5, and afterwards a is not a key of the
\* environment.
C3_Original ==
    (Program = ProgScopeOneLine /\ Terminal) =>
       /\ pc = "done"
       /\ output = <<IntV(5)>>
       /\ NameA \notin DOMAIN var_values

-----------------------------------------------------------------------------
(* C4 *)

\* C4: for every CYCLE node that execution has passed and that holds a
\* value, the value is the sequence of the body values of this run of the
\* cycle in order, and its length is the number of predicate checks of the
\* run that found a value > 0 (so it is empty when the first check fails);
\* a cycle inside the body of another is counted afresh on each of its runs.
C4_CycleSequence ==
    \A c \in DOMAIN hist :
       (hist[c].passed /\ Valued(c)) =>
          /\ node_values[c] = ListV(hist[c].bodies)
          /\ Len(node_values[c].v) = hist[c].n

\* The nested countdown has ended: the outer cycle went round twice, and
\* the last run of the inner cycle once.
C4_Witness ==
    /\ Program = ProgNested(2)
    /\ pc = "done"
    /\ \E c \in DOMAIN hist, d \in DOMAIN hist :
          /\ nget(d).scope_sig # nget(c).scope_sig
          /\ hist[c].passed /\ hist[c].n = 2 /\ Len(hist[c].bodies) = 2
          /\ hist[d].passed /\ hist[d].n = 1
          /\ node_values[c].v[1] # node_values[c].v[2]

-----------------------------------------------------------------------------
(* C5 *)

\* C5 as stated: a program with a conditional expression in which no IF
\* arm's predicate is > 0 and which has no ELSE does not crash: the EXPR and
\* the ASSIGN around the CONDEX are evaluated and execution runs to the end
\* of the work list.
C5_NoCrash ==
    \A v \in SignedVals :
       (v <= 0 /\ Program = ProgCondexNoElse(v)) =>
          /\ pc # "crashed"
          /\ Terminal => pc = "done"

-----------------------------------------------------------------------------
(* C6 *)

\* A VALUE node naming a variable is about to be evaluated and the name is
\* not in the environment.
UndefinedRead ==
    /\ Running({"VALUE"})
    /\ nget(Head(to_exec)).val.tt \in {"GNAME", "LNAME"}
    /\ nget(Head(to_exec)).val.val \notin DOMAIN var_values

C6_Step ==
    /\ pc # "terminated"
    /\ UndefinedRead =>
          /\ pc' = "terminated"
          /\ Len(diag') = Len(diag) + 1
          /\ SubSeq(diag', 1, Len(diag)) = diag
          /\ diag'[Len(diag')].k = "Error"
          /\ diag'[Len(diag')].line = nget(Head(to_exec)).lptr + 1
          /\ diag'[Len(diag')].msg \in {"Undefined global name", "Undefined local name"}
          /\ diag'[Len(diag')].arg = nget(Head(to_exec)).val.val
          /\ output' = output
          /\ node_values' = node_values
          /\ var_values' = var_values
    /\ (Program = <<LnUndefG>> /\ pc' \in {"done", "terminated", "crashed"}) =>
          /\ pc' = "terminated"
          /\ output' = <<>>
          /\ diag' = <<[k |-> "Error", line |-> 1, msg |-> "Undefined global name",
                        arg |-> <<"z", "z", "z">>]>>
    /\ (Program = <<LnOut1, LnUndefL, LnOut7>> /\ pc' \in {"done", "terminated", "crashed"}) =>
          /\ pc' = "terminated"
          /\ output' = <<IntV(1)>>
          /\ diag' = <<[k |-> "Error", line |-> 2, msg |-> "Undefined local name",
                        arg |-> <<"q">>]>>

\* C6: whenever a VALUE node naming a GNAME or LNAME is evaluated while the
\* name is absent from the environment, one undefined-name diagnostic with
\* the node's 1-based line and the name is emitted and the interpreter
\* terminates: the step evaluates nothing and outputs nothing, and no step
\* follows termination.  `!: zzz` ends so on line 1 with no output; in
\* `!: 1`, `!: 'q'`, `!: 7` the 1 is output, the diagnostic cites line 2
\* and the 7 is never output.
C6_UndefinedNameTerminates == [][C6_Step]_vars

C6_Witness ==
    /\ Program = <<LnOut1, LnUndefL, LnOut7>>
    /\ pc = "terminated"
    /\ output = <<IntV(1)>>
    /\ LastDiag.msg = "Undefined local name"

-----------------------------------------------------------------------------
(* C7 *)

Bang == <<"!">>

\* An ASSIGN node whose right-hand side has a value is about to be evaluated.
AssignReady ==
    /\ Running({"ASSIGN"})
    /\ Len(nget(Head(to_exec)).children) >= 2
    /\ Valued(nget(Head(to_exec)).children[2])

TargetOf(n) == nget(nget(n).children[1]).val.val
RightOf(n)  == node_values[nget(n).children[2]]

C7_Step ==
    /\ AssignReady =>
          IF TargetOf(Head(to_exec)) = Bang
          THEN /\ output' = Append(output, RightOf(Head(to_exec)))
               /\ var_values' = var_values
          ELSE /\ output' = output
               /\ DOMAIN var_values' = DOMAIN var_values \cup {TargetOf(Head(to_exec))}
               /\ var_values'[TargetOf(Head(to_exec))] = RightOf(Head(to_exec))
               /\ \A k \in DOMAIN var_values \ {TargetOf(Head(to_exec))} :
                     var_values'[k] = var_values[k]
    /\ Bang \notin DOMAIN var_values'
    /\ \A sig \in DOMAIN scope_map' : Bang \notin Range(scope_map'[sig])

\* C7: every ASSIGN with target L and right-hand value R appends R to the
\* output and leaves the environment alone if L is `!`, and otherwise sets
\* environment[L] to R, leaves the other variables alone and outputs
\* nothing; `!` is never a key of the environment or a name of a scope-map
\* entry.
C7_AssignEffect == [][C7_Step]_vars

\* A run that has assigned to a variable and then to `!`.
C7_Witness ==
    /\ pc = "done"
    /\ Program = ProgCondex(1)
    /\ output = <<IntV(10)>>
    /\ var_values[<<"y">>] = IntV(10)

-----------------------------------------------------------------------------
(* C8 *)

\* The children of an EXPR are operands v1 .. vk with an operator between
\* neighbours (k >= 1), every operand holding an integer...
Alternating(ch) ==
    /\ Len(ch) % 2 = 1
    /\ \A k \in 1..Len(ch) :
          IF k % 2 = 1
          THEN nget(ch[k]).nt # "OP" /\ Valued(ch[k]) /\ IsInt(node_values[ch[k]])
          ELSE nget(ch[k]).nt = "OP"

\* ... or the same followed by one more operator.
TrailingOperator(ch) ==
    /\ ch # <<>>
    /\ Len(ch) % 2 = 0
    /\ \A k \in 1..Len(ch) :
          IF k % 2 = 1
          THEN nget(ch[k]).nt # "OP" /\ Valued(ch[k]) /\ IsInt(node_values[ch[k]])
          ELSE nget(ch[k]).nt = "OP"

\* ((v1 op1 v2) op2 v3) ... over the first k children.
RECURSIVE LeftFold(_, _)
LeftFold(ch, k) ==
    IF k = 1 THEN node_values[ch[1]].v
    ELSE IF nget(ch[k - 1]).val.tt = "PLUS"
         THEN LeftFold(ch, k - 2) + node_values[ch[k]].v
         ELSE LeftFold(ch, k - 2) - node_values[ch[k]].v

C8_Step ==
    /\ (Running({"EXPR"}) /\ Alternating(nget(Head(to_exec)).children)) =>
          /\ pc' = "exec"
          /\ Head(to_exec) \in DOMAIN node_values'
          /\ node_values'[Head(to_exec)] =
                IntV(LeftFold(nget(Head(to_exec)).children,
                              Len(nget(Head(to_exec)).children)))
    /\ (Running({"EXPR"}) /\ Len(nget(Head(to_exec)).children) = 1
           /\ Valued(nget(Head(to_exec)).children[1])) =>
          /\ pc' = "exec"
          /\ node_values'[Head(to_exec)] = node_values[nget(Head(to_exec)).children[1]]
    /\ (Running({"EXPR"}) /\ TrailingOperator(nget(Head(to_exec)).children)) =>
          /\ pc' = "terminated"
          /\ diag' = Append(diag, [k |-> "Error", line |-> nget(Head(to_exec)).lptr + 1,
                                   msg |-> "Malformed Arithmatic", arg |-> <<>>])
          /\ output' = output
    /\ (Program = <<LnSub3, LnSubAdd, LnFour>> /\ pc' = "done") =>
          output' = <<IntV(2), IntV(4), IntV(1)>>

\* C8: an EXPR whose children are integer operands separated by operators
\* takes the left-to-right fold ((v1 op1 v2) op2 v3) ..., + and - having
\* equal precedence (5 - 2 - 1 = 2, 5 - 2 + 1 = 4, 9 - 4 + 2 - 6 = 1); an
\* EXPR with one child takes the child's value; an EXPR whose last operator
\* lacks its second operand emits the malformed-arithmetic diagnostic and
\* the interpreter terminates.
C8_LeftFold == [][C8_Step]_vars

\* 2 - 1 + 1 has been evaluated to 2, not to 2 - (1 + 1) = 0.
C8_Witness ==
    /\ Program = ProgArith(2, "MINUS", 1, "PLUS", 1)
    /\ pc = "done"
    /\ output = <<IntV(2)>>

-----------------------------------------------------------------------------
(* C9 *)

FatalParseMsgs ==
    {"Malformed line", "Expected assignment",
     "Found ')' but next construct to close is not an expression or scope.",
     "Found ']' but next construct to close is not a cycle.",
     "Cannot have predicate in else statement"}

LineDropMsgs ==
    {"Colon found outside of cycle or conditional expression",
     "Tokens found beyond expected EOL"}

\* The parser step under way has emitted diagnostics, the last with msg in ms.
ParserSaid(ms) ==
    /\ pc = "parse"
    /\ Len(diag') > Len(diag)
    /\ diag'[Len(diag')].msg \in ms

C9_Step ==
    /\ ParserSaid(FatalParseMsgs) =>
          /\ pc' = "terminated"
          /\ node_values' = <<>> /\ output' = <<>> /\ to_exec' = <<>>
    /\ ParserSaid(LineDropMsgs) =>
          /\ pc' = "eol"
          /\ diag'[Len(diag')].k = "Error"
    /\ pc = "eol" => pc' \in {"feed", "crashed"}
    /\ pc # "terminated"
    /\ (Program = <<LnColonOut, LnOutX>> /\ pc' \in {"done", "terminated", "crashed"}) =>
          /\ pc' = "done"
          /\ output' = <<IntV(1)>>
    /\ (Program = <<LnScopeTrail, LnOut7>> /\ pc' \in {"done", "terminated", "crashed"}) =>
          /\ pc' = "terminated"
          /\ output' = <<IntV(7)>>

\* C9 (amended): a malformed line start, an unexpected closer and a COLON
\* in an ELSE arm are fatal: the parser emits the diagnostic and the
\* interpreter terminates, so nothing more is parsed and no node is
\* executed.  A COLON outside a cycle or condex and a token after a scope's
\* return name are not: the parser emits the diagnostic, drops the rest of
\* the line and goes on with the next line, and the program is executed
\* (`x: 1 : 2`, `!: x` outputs 1; after `y: (@ a b` the line `!: 7` is
\* parsed into the scope and 7 is output before the RETURN terminates).
C9_ParseErrors == [][C9_Step]_vars

\* A run that went on after a COLON outside a cycle or condex, to its end.
C9_Witness ==
    /\ Program = <<LnColonOut, LnOutX>>
    /\ pc = "done"
    /\ output = <<IntV(1)>>
    /\ diag # <<>>
    /\ diag[1].msg = "Colon found outside of cycle or conditional expression"

\* C9 as stated: every structural parse error is fatal: once the parser has
\* emitted the diagnostic of a malformed line start, an unexpected closer, a
\* COLON outside a cycle or condex, a COLON in an ELSE arm or a token after
\* a scope's return name, the interpreter has terminated and no node is
\* ever executed.
C9_Original ==
    (\E k \in 1..Len(diag) : diag[k].msg \in FatalParseMsgs \cup LineDropMsgs) =>
       /\ pc = "terminated"
       /\ node_values = <<>>
       /\ output = <<>>

-----------------------------------------------------------------------------
(* C10 *)

\* The name was assigned through an LNAME target inside a scope: an ASSIGN
\* that has been evaluated has an LNAME target of that name whose scope
\* signature is that of a SCOPE's contents.
AssignedLocally(name) ==
    \E m \in NodeIds :
       /\ nget(m).nt = "ASSIGN"
       /\ ~Pending(m)
       /\ nget(m).children # <<>>
       /\ nget(nget(m).children[1]).val.tt = "LNAME"
       /\ nget(nget(m).children[1]).val.val = name
       /\ Len(nget(m).scope_sig) >= 2

\* C10 as stated: a scope whose return name was assigned through an LNAME
\* target inside the scope yields that local's value, and the RETURN
\* terminates the interpreter only for a name in no live scope's set: so
\* the RETURN never terminates the interpreter over a name that was
\* assigned through an LNAME target inside the scope, and `a: 1`,
\* `y: (@ a`, `'a': 5`, `)`, `!: y` outputs 5.
C10_ScopeYieldsLocal ==
    /\ (pc = "terminated" /\ diag # <<>>
           /\ LastDiag.msg = "is not an in-scope local variable.")
         => ~AssignedLocally(LastDiag.arg)
    /\ (Program = ProgScopeShadow /\ Terminal) =>
          (pc = "done" /\ output = <<IntV(5)>>)

-----------------------------------------------------------------------------
(* C11 *)

TokenKinds(ts) == [k \in 1..Len(ts) |-> ts[k].tt]

\* C11 as stated: a GNAME, LNAME or NUMBER still being accumulated when the
\* last character of a line has been consumed is emitted, so the tokens of
\* a line are those of the same line with a newline after it, and `x: 3`
\* without a newline yields GNAME x, COLON, NUMBER 3.
C11_EndOfLineFlush ==
    (pc = "parse" /\ index = -1) =>
       /\ toks = tokenise(Top(lines) \o <<"\n">>, cur_lptr).toks
       /\ Program = <<LnXNoNewline>> => TokenKinds(toks) = <<"GNAME", "COLON", "NUMBER">>

-----------------------------------------------------------------------------
(* C12 *)

\* The kinds of the children of node i, in order.
ChildKinds(i) == [k \in 1..Len(nget(i).children) |-> nget(nget(i).children[k]).nt]

\* A line has been fed and parsed to its end, or the program is executing:
\* no fatal diagnostic was raised.
LinesParsed == pc \in {"feed", "exec", "done"}

\* C12 as stated: after any sequence of fed lines that raised no fatal
\* diagnostic, every ASSIGN node has exactly two children, an LVALUE and
\* then an EXPR.
C12_AssignShape ==
    LinesParsed =>
       \A n \in NodeIds :
          nget(n).nt = "ASSIGN" => ChildKinds(n) = <<"LVALUE", "EXPR">>

-----------------------------------------------------------------------------
(* C13 *)

\* C13 as stated: after any sequence of fed lines that raised no fatal
\* diagnostic, the children of every CONDEX node are one or more IF nodes,
\* optionally followed by one ELSE node as the last child.
C13_CondexShape ==
    LinesParsed =>
       \A c \in NodeIds :
          nget(c).nt = "CONDEX" =>
             /\ Len(ChildKinds(c)) >= 1
             /\ \A k \in 1..Len(ChildKinds(c)) :
                   \/ ChildKinds(c)[k] = "IF"
                   \/ ChildKinds(c)[k] = "ELSE" /\ k = Len(ChildKinds(c)) /\ k > 1

-----------------------------------------------------------------------------
(* C14 *)

OperandKinds == {"VALUE", "EXPR", "CYCLE", "SCOPE", "CONDEX"}

\* C14 as stated: after any sequence of fed lines that raised no fatal
\* diagnostic, the children of every EXPR node alternate operands (VALUE,
\* sub-EXPR, CYCLE, SCOPE or CONDEX) and OP nodes: the odd children are
\* operands, the even ones OPs, and there is no child of another kind.
C14_ExprShape ==
    LinesParsed =>
       \A e \in NodeIds :
          nget(e).nt = "EXPR" =>
             \A k \in 1..Len(ChildKinds(e)) :
                IF k % 2 = 1 THEN ChildKinds(e)[k] \in OperandKinds
                ELSE ChildKinds(e)[k] = "OP"

-----------------------------------------------------------------------------
(* C15 *)

\* The end-of-line rebase of a line is the step from the parser to the
\* next feed.
C15_Step ==
    (pc \in {"parse", "eol"} /\ pc' = "feed") =>
       /\ \A k \in 1..Len(cons_stack) :
             nget(cons_stack[k]).nt \in {"EXPR", "SCOPE", "CYCLE"} =>
                /\ cons_stack[k] \in Range(cons_stack')
                /\ cons_stack[k] \in Range(active_stack')
       /\ \/ nget(Top(active_stack')).nt = "SEQ"
          \/ Top(active_stack') = Top(cons_stack')

\* C15 as stated: the end-of-line rebase never concludes a construct opened
\* by `(`, `(@` or `[`: every parenthesized EXPR, SCOPE and CYCLE that is
\* open when the line ends is still on the construct stack and on the
\* active stack after the rebase, and the top active is then a SEQ or the
\* current construct.
C15_RebaseKeepsOpen == [][C15_Step]_vars

-----------------------------------------------------------------------------
(* C16 *)

\* The construct stack without the CONDEXes on top of it.
RECURSIVE StripCondex(_)
StripCondex(cs) ==
    IF cs # <<>> /\ nget(Top(cs)).nt = "CONDEX" THEN StripCondex(Pop(cs)) ELSE cs

\* The opener of a construct of kind nt is the one the closer tt matches.
Matches(tt, nt) ==
    \/ tt = "RPAREN" /\ nt \in {"EXPR", "SCOPE"}
    \/ tt = "RBRACK" /\ nt = "CYCLE"

CloserMsg(tt) ==
    IF tt = "RPAREN"
    THEN "Found ')' but next construct to close is not an expression or scope."
    ELSE "Found ']' but next construct to close is not a cycle."

\* The parser is about to read a closer where closers are handled.
CloserNext ==
    /\ pc = "parse"
    /\ index + 1 < Len(toks)
    /\ expect \in {"initial", "expr_op"}
    /\ toks[index + 2].tt \in {"RPAREN", "RBRACK"}

PositionIn(s, x) == CHOOSE k \in 1..Len(s) : s[k] = x

C16_Step ==
    CloserNext =>
       LET tt == toks[index + 2].tt
           cs == StripCondex(cons_stack)
       IN /\ cs # <<>>
          /\ nodes' = nodes
          /\ IF Matches(tt, nget(Top(cs)).nt)
             THEN /\ pc' = "parse"
                  /\ diag' = diag
                  /\ cons_stack' = Pop(cs)
                  /\ active_stack' =
                        SubSeq(active_stack, 1, PositionIn(active_stack, Top(cs)) - 1)
                  /\ scope_stack' = IF nget(Top(cs)).nt = "SCOPE"
                                    THEN Pop(scope_stack) ELSE scope_stack
             ELSE /\ pc' = "terminated"
                  /\ diag' = Append(diag, [k |-> "Error", line |-> cur_lptr + 1,
                                           msg |-> CloserMsg(tt), arg |-> <<>>])
                  /\ cons_stack' = cs
                  /\ cons_stack'[1] = 0
                  /\ active_stack' # <<>>
                  /\ active_stack'[1] = 0

-----------------------------------------------------------------------------
(* C17 *)

JumpSet == jump_node # NoJump

C17_Step ==
    \* set only by a PREDICATE node, and only while clear
    /\ (jump_node' # jump_node /\ jump_node' # NoJump) =>
          /\ ~JumpSet
          /\ pc = "exec" /\ to_exec # <<>>
          /\ nget(Head(to_exec)).nt = "PREDICATE"
          /\ jump_node' \in Range(nget(Head(to_exec)).val.jumps)
    \* cleared only when the node popped is the target
    /\ (JumpSet /\ jump_node' # jump_node) =>
          /\ jump_node' = NoJump
          /\ pc = "exec" /\ to_exec # <<>>
          /\ Head(to_exec) = jump_node
    \* while set, a popped node that is not the target is skipped
    /\ (JumpSet /\ pc = "exec" /\ to_exec # <<>> /\ Head(to_exec) # jump_node) =>
          /\ jump_node' = jump_node
          /\ to_exec' = Tail(to_exec)
          /\ UNCHANGED <<node_values, var_values, scope_map, output, diag>>
    \* the target is ahead in the work list
    /\ jump_node' # NoJump => jump_node' \in Range(to_exec')

\* C17: the jump pointer is set only by the evaluation of a PREDICATE node,
\* to one of the targets of its payload, and only while it is clear; it
\* changes, once set, only by being cleared when the node popped from the
\* work list is its target, every other node popped meanwhile being
\* skipped; and whenever it is set its target is in the remaining work
\* list, so a jump skips forward and never to the end of the program.
C17_JumpPointer == [][C17_Step]_vars

\* A jump to a CYCLE is under way and the node about to be popped is skipped.
C17_Witness ==
    /\ pc = "exec"
    /\ JumpSet
    /\ to_exec # <<>>
    /\ Head(to_exec) # jump_node
    /\ nget(jump_node).nt = "CYCLE"
    /\ jump_node \in Range(to_exec)

-----------------------------------------------------------------------------
(* C18 *)

\* The PREDICATE nodes of cycles.
CyclePredicates ==
    {p \in NodeIds : nget(p).nt = "PREDICATE" /\ nget(nget(p).parent).nt = "CYCLE"}

\* The PREDICATE of a cycle is about to be evaluated on an integer.
CycleCheck ==
    /\ Running({"PREDICATE"})
    /\ Head(to_exec) \in CyclePredicates
    /\ nget(Head(to_exec)).children # <<>>
    /\ Valued(nget(Head(to_exec)).children[1])
    /\ IsInt(node_values[nget(Head(to_exec)).children[1]])

CheckedValue == node_values[nget(Head(to_exec)).children[1]].v

C18_Step ==
    /\ \A p \in CyclePredicates :
          /\ nget(p).val.test = "le0"
          /\ nget(p).val.jumps = <<nget(p).parent>>
    /\ CycleCheck =>
          /\ pc' = "exec"
          /\ IF CheckedValue <= 0
             THEN /\ node_values'[Head(to_exec)] = BoolV(TRUE)
                  /\ jump_node' = nget(Head(to_exec)).parent
             ELSE /\ node_values'[Head(to_exec)] = BoolV(FALSE)
                  /\ jump_node' = NoJump

\* C18 (amended): the payload of every cycle PREDICATE has the test
\* "value <= 0", the enclosing CYCLE's node index as taken-jump target and
\* no not-taken target: when the predicate's child value is <= 0 the test
\* succeeds and the jump pointer is set to the CYCLE's index, so the body is
\* skipped and the cycle ends; when it is > 0 the test fails, no jump is set
\* and execution falls through into the body.
C18_CyclePredicate == [][C18_Step]_vars

\* A cycle's check has found a value <= 0 and the jump to the CYCLE is set.
C18_Witness ==
    \E p \in CyclePredicates :
       /\ pc = "exec"
       /\ Valued(p)
       /\ node_values[p] = BoolV(TRUE)
       /\ jump_node = nget(p).parent
       /\ Valued(nget(p).children[1])
       /\ ~IsPositive(node_values[nget(p).children[1]])

C18_OriginalStep ==
    /\ \A p \in CyclePredicates :
          /\ nget(p).val.test = "gt0"
          /\ nget(p).val.jumps = <<nget(p).parent>>
    /\ CycleCheck =>
          IF CheckedValue > 0
          THEN /\ node_values'[Head(to_exec)] = BoolV(TRUE)
               /\ jump_node' = nget(Head(to_exec)).parent
          ELSE /\ node_values'[Head(to_exec)] = BoolV(FALSE)
               /\ jump_node' = NoJump

\* C18 as stated: the payload of every cycle PREDICATE has the test
\* "value > 0" and the CYCLE's index as only target: a child value > 0
\* makes the test succeed and sets the jump pointer to the CYCLE's index,
\* and a value <= 0 sets no jump.
C18_Original == [][C18_OriginalStep]_vars

-----------------------------------------------------------------------------
(* C19 *)

\* The executed LVALUE nodes with an LNAME token under signature sig.
LocalTargets(sig) ==
    {m \in NodeIds : /\ nget(m).nt = "LVALUE"
                     /\ nget(m).val.tt = "LNAME"
                     /\ nget(m).scope_sig = sig
                     /\ ~Pending(m)}

C19_Step ==
    /\ (Running({"LVALUE"}) /\ nget(Head(to_exec)).val.tt = "LNAME") =>
          /\ nget(Head(to_exec)).scope_sig \in DOMAIN scope_map'
          /\ nget(Head(to_exec)).val.val
                \in Range(scope_map'[nget(Head(to_exec)).scope_sig])
    /\ (Running({"SCOPE"}) /\ pc' = "exec") =>
          \A m \in LocalTargets(nget(Head(to_exec)).scope_sig) :
             nget(m).val.val \notin DOMAIN var_values'

\* C19 as stated: once an LVALUE node with an LNAME token has executed, the
\* name is a member of scope_map[n.scope_sig], and once the SCOPE that owns
\* that signature has concluded the name is no longer a key of the variable
\* environment, also when a global of the same name was assigned before
\* the scope was entered.
C19_LocalRecorded == [][C19_Step]_vars

-----------------------------------------------------------------------------
(* C20 *)

\* A SCOPE node whose child has a value is about to conclude.
ScopeConcludes ==
    /\ Running({"SCOPE"})
    /\ nget(Head(to_exec)).children # <<>>
    /\ Valued(nget(Head(to_exec)).children[1])

\* The names recorded under the signature of the SCOPE that concludes.
Owned ==
    IF nget(Head(to_exec)).scope_sig \in DOMAIN scope_map
    THEN Range(scope_map[nget(Head(to_exec)).scope_sig])
    ELSE {}

C20_Step ==
    (ScopeConcludes /\ pc' = "exec") =>
       /\ DOMAIN var_values' = DOMAIN var_values \ Owned
       /\ \A k \in DOMAIN var_values' : var_values'[k] = var_values[k]
       /\ DOMAIN scope_map' = DOMAIN scope_map \ {nget(Head(to_exec)).scope_sig}
       /\ \A s \in DOMAIN scope_map' : scope_map'[s] = scope_map[s]

\* C20: when a SCOPE node concludes, exactly the names recorded in the
\* scope map under that scope's signature are removed from the variable
\* environment and that signature is removed from the scope map; every
\* other binding keeps its value and the entries of the other scopes are
\* untouched.  So a global first assigned inside a scope is still bound to
\* its last assigned value after the scope: `y: (@ a`, `g: 7`, `'a': 5`,
\* `)`, `!: g`, `!: y` outputs 7 and 5, and ends with g bound and a unbound.
C20_ScopeFrame ==
    /\ [][C20_Step]_vars
    /\ [](Program = ProgScopeGlobal /\ Terminal =>
             /\ pc = "done"
             /\ output = <<IntV(7), IntV(5)>>
             /\ <<"g">> \in DOMAIN var_values
             /\ var_values[<<"g">>] = IntV(7)
             /\ <<"a">> \notin DOMAIN var_values)

\* The scope that assigned the global g and the local a has concluded and
\* both outputs have been made.
C20_Witness ==
    /\ Program = ProgScopeGlobal
    /\ pc = "done"
    /\ output = <<IntV(7), IntV(5)>>
    /\ <<"g">> \in DOMAIN var_values
    /\ <<"a">> \notin DOMAIN var_values

-----------------------------------------------------------------------------
(* C21 *)

\* The SCOPE nodes on the path from the root to node i, i included,
\* outermost first.
RECURSIVE ScopePath(_)
ScopePath(i) ==
    IF i <= 0 THEN <<>>
    ELSE IF nget(i).nt = "SCOPE"
         THEN Append(ScopePath(nget(i).parent), i)
         ELSE ScopePath(nget(i).parent)

SigWellFormed(i) ==
    LET sig == nget(i).scope_sig
    IN /\ Len(sig) >= 1
       /\ sig[1] = 0
       /\ \A k \in 2..Len(sig) : sig[k] \in NodeIds /\ nget(sig[k]).nt = "SCOPE"
       /\ IF ScopePath(i) = <<>>
          THEN Len(sig) = 1
          ELSE Len(sig) > 1 /\ sig[Len(sig)] = ScopePath(i)[Len(ScopePath(i))]
       /\ nget(i).nt = "SCOPE" => sig = Append(nget(nget(i).parent).scope_sig, i)

\* The nodes a parser step creates.
Created == {i \in 0..(Len(nodes') - 1) : i >= Len(nodes)}

C21_Step ==
    pc' \notin {"crashed"} =>
       /\ \A i \in Created : nodes'[i + 1].scope_sig = scope_stack'
       /\ \A s \in NodeIds :
             (nget(s).nt = "SCOPE" /\ s \in Range(active_stack)
                 /\ s \notin Range(active_stack'))
             => (s \in Range(scope_stack) /\ s \notin Range(scope_stack'))

\* C21: every non-root node's scope signature is the scope stack at its
\* creation: it begins with 0, every later component is the index of an
\* existing SCOPE node, and its last component is the index of the nearest
\* enclosing SCOPE (it has one component when no SCOPE encloses the node);
\* a SCOPE node's signature is its parent's signature extended by its own
\* index, and the index leaves the scope stack when the SCOPE is concluded.
C21_ScopeSignature ==
    /\ [](\A i \in NodeIds \ {0} : SigWellFormed(i))
    /\ [][C21_Step]_vars

\* A SCOPE nested in a SCOPE has been created and both have been concluded.
C21_Witness ==
    /\ pc = "exec"
    /\ scope_stack = <<0>>
    /\ \E i \in NodeIds : nget(i).nt = "SCOPE" /\ Len(nget(i).scope_sig) = 3
    /\ \E i \in NodeIds : nget(i).nt = "VALUE" /\ Len(nget(i).scope_sig) = 3

-----------------------------------------------------------------------------
(* C22 *)

\* The nodes whose payload is a name token holding `!`.
BangNodes ==
    {i \in NodeIds : /\ nget(i).nt \in {"VALUE", "LVALUE", "RETURN"}
                     /\ nget(i).val.tt \in {"GNAME", "LNAME"}
                     /\ nget(i).val.val = Bang}

\* The parser meets `!` where it expects a value.
BangAsValue ==
    /\ pc = "parse"
    /\ index + 1 < Len(toks)
    /\ expect = "expr_val"
    /\ toks[index + 2].tt = "GNAME"
    /\ toks[index + 2].val = Bang

C22_Step ==
    BangAsValue =>
       /\ nodes' = nodes
       /\ diag' = Append(diag, Err(cur_lptr, "Cannot use output variable '!' as value.", <<>>))

\* C22 as stated: no VALUE node ever carries the token `!`; when `!` is met
\* in a value position the parser emits the "Cannot use output variable"
\* diagnostic and creates no node; and `!` is in the arena only as the
\* payload of LVALUE nodes.
C22_BangOnlyLValue ==
    /\ [](\A i \in BangNodes : nget(i).nt = "LVALUE")
    /\ [][C22_Step]_vars

-----------------------------------------------------------------------------
(* C23 *)

\* The positions of a line where the lexer, accumulating a local name,
\* meets a character that is neither an identifier character nor an
\* apostrophe.
BadInLocal(line) ==
    {k \in 1..Len(line) :
        /\ tokenise(SubSeq(line, 1, k - 1), 0).mode = "lname"
        /\ ~(isalnum(line[k]) \/ line[k] = "_")
        /\ line[k] # "'"}

\* The line with the character at k replaced by the closing apostrophe,
\* the one character the lexer drops after a local name.
Closed(line, k) == [line EXCEPT ![k] = "'"]

C23_Step ==
    (pc = "feed" /\ src # <<>> /\ Cardinality(BadInLocal(Head(src))) = 1) =>
       LET k   == CHOOSE k \in BadInLocal(Head(src)) : TRUE
           lex == tokenise(Closed(Head(src), k), Len(lines))
       IN /\ toks' = lex.toks
          /\ Len(diag') = Len(diag) + Len(lex.errs) + 1
          /\ Head(src) = LnOutLocalPlus =>
                TokenKinds(toks') = <<"GNAME", "COLON", "LNAME", "NUMBER">>

\* C23 as stated: a character that is neither an identifier character nor
\* an apostrophe, met while a local name is accumulated, costs one
\* diagnostic, ends the LNAME token and is discarded: it yields no token of
\* its own and no second diagnostic, so the line lexes as if the character
\* were the closing apostrophe, with one more diagnostic (`!: 'a+1` yields
\* GNAME, COLON, LNAME a, NUMBER 1).
C23_BadCharDiscarded == [][C23_Step]_vars

-----------------------------------------------------------------------------
(* C24 *)

\* s is an order-preserving subsequence of t.
RECURSIVE IsSubsequence(_, _)
IsSubsequence(s, t) ==
    IF s = <<>> THEN TRUE
    ELSE IF t = <<>> THEN FALSE
    ELSE IF Head(s) = Head(t) THEN IsSubsequence(Tail(s), Tail(t))
    ELSE IsSubsequence(s, Tail(t))

\* The entries of a stack that are SCOPE nodes, in stack order.
RECURSIVE ScopesOf(_)
ScopesOf(s) ==
    IF s = <<>> THEN <<>>
    ELSE IF nget(Head(s)).nt = "SCOPE" THEN <<Head(s)>> \o ScopesOf(Tail(s))
    ELSE ScopesOf(Tail(s))

StacksConsistent ==
    /\ active_stack # <<>> /\ cons_stack # <<>> /\ scope_stack # <<>>
    /\ active_stack[1] = 0 /\ cons_stack[1] = 0 /\ scope_stack[1] = 0
    /\ IsSubsequence(cons_stack, active_stack)
    /\ IsSubsequence(scope_stack, active_stack)
    /\ scope_stack = <<0>> \o ScopesOf(active_stack)

-----------------------------------------------------------------------------
(* C25 *)

\* The VALUE nodes that read a name.
NameReads ==
    {i \in NodeIds : nget(i).nt = "VALUE" /\ nget(i).val.tt \in {"GNAME", "LNAME"}}

\* C25 as stated: a name-reading VALUE node never takes the unset value:
\* the slot an LVALUE creates for a new name is not read by a VALUE node
\* before the ASSIGN owning the LVALUE has stored a value, also when the
\* right-hand side of the first assignment refers to the name itself
\* (`x: x + 1` with x not yet assigned).
C25_NoUnsetRead ==
    \A i \in NameReads : Valued(i) => node_values[i].t # "none"

====
